---- MODULE Spec2Model ----
(***************************************************************************)
(* The document index and navigation engine of auntie                      *)
(* (src/src/modules/MetaTextEngine.js), as a state machine.                *)
(*                                                                         *)
(* Strings are sequences of one-character strings; a path is the sequence  *)
(* of its segment names below the file system root ("/r/d" is <<r, d>>);   *)
(* a unit object is a record of the flat registry and is referred to, from *)
(* the navigation tree and from children lists, by its position in the     *)
(* registry (JavaScript object identity).                                  *)
(***************************************************************************)
EXTENDS Integers, Sequences, FiniteSets, TLC

(***************************************************************************)
(* Bounds of the model.                                                    *)
(***************************************************************************)
\* at most this many units are inserted into the index
MaxUnits == 5
MaxNavUnits == 4

\* a numbering given to _multiPartComparison has at most this many segments
MaxKeyLen == 3

\* a text given to _extractNumbering has at most this many characters
MaxTextLen == 4

\* a path given to _makeRelUrl has at most this many segments
MaxPathLen == 3

\* a label given to tidyUpLabel has at most this many words
MaxWords == 3

(***************************************************************************)
(* JavaScript values                                                       *)
(***************************************************************************)
\* A value that may be missing is a sequence of length at most one: << >> is
\* null, or the value of a property that was never assigned, and <<v>> is v.
Null == << >>
Undefined == << >>
Some(v) == <<v>>

\* '' (the empty string)
EmptyString == << >>

\* the element of a set of one element.  Only({F(v) : v \in {x}}) is F of the
\* value of x, computed once and named v (const v = x)
Only(S) == CHOOSE r \in S : TRUE

\* the registry of a new HtmlElementProxyFactory: no element
EmptyRegistry == << >>

(***************************************************************************)
(* Characters                                                              *)
(***************************************************************************)
Digits == <<"0", "1", "2", "3", "4", "5", "6", "7", "8", "9">>
Lowers == <<"a", "b", "c", "d", "e", "f", "g", "h", "i", "j", "k", "l", "m",
            "n", "o", "p", "q", "r", "s", "t", "u", "v", "w", "x", "y", "z">>
Uppers == <<"A", "B", "C", "D", "E", "F", "G", "H", "I", "J", "K", "L", "M",
            "N", "O", "P", "Q", "R", "S", "T", "U", "V", "W", "X", "Y", "Z">>

Range(s) == {s[i] : i \in DOMAIN s}

DigitSet == Range(Digits)
LowerSet == Range(Lowers)
UpperSet == Range(Uppers)

\* \d
IsDigit(c) == c \in DigitSet
\* \w  is [A-Za-z0-9_]
IsWordChar(c) == c \in DigitSet \cup LowerSet \cup UpperSet \cup {"_"}
\* \s
IsSpace(c) == c \in {" ", "\t", "\n"}
\* a character of the class [\d\W_] of NUMBERING_PATTERN
IsNumberingChar(c) == IsDigit(c) \/ ~IsWordChar(c) \/ c = "_"
IsDash(c) == c = "-"
IsUnderscore(c) == c = "_"

\* the character classes of the regular expressions of the engine
InClass(class, c) ==
    CASE class = "\\d" -> IsDigit(c)
      [] class = "\\W" -> ~IsWordChar(c)
      [] class = "\\s" -> IsSpace(c)
      [] class = "[\\d\\W_]" -> IsNumberingChar(c)
      [] class = "[\\-]" -> IsDash(c)
      [] class = "[\\_]" -> IsUnderscore(c)
      [] class = "[\\_\\-]" -> IsDash(c) \/ IsUnderscore(c)
      [] class = "[^ ]" -> c # " "

IndexIn(s, c) == CHOOSE i \in DOMAIN s : s[i] = c
DigitValue(c) == IndexIn(Digits, c) - 1
ToUpperChar(c) == IF c \in LowerSet THEN Uppers[IndexIn(Lowers, c)] ELSE c
ToLowerChar(c) == IF c \in UpperSet THEN Lowers[IndexIn(Uppers, c)] ELSE c

\* String.prototype.toUpperCase / toLowerCase
ToUpperCase(s) == [i \in DOMAIN s |-> ToUpperChar(s[i])]
ToLowerCase(s) == [i \in DOMAIN s |-> ToLowerChar(s[i])]

(***************************************************************************)
(* String helpers                                                          *)
(***************************************************************************)
\* the length of the longest run of characters of a class that starts at s[i]
RECURSIVE RunFrom(_, _, _)
RunFrom(s, class, i) ==
    IF i > Len(s) \/ ~InClass(class, s[i]) THEN 0 ELSE 1 + RunFrom(s, class, i + 1)

\* the length of the longest prefix of s made of characters of a class
PrefixLen(s, class) == RunFrom(s, class, 1)

DropFirst(s, n) == SubSeq(s, n + 1, Len(s))

RECURSIVE TrimLeft(_)
TrimLeft(s) == IF s # << >> /\ IsSpace(s[1]) THEN TrimLeft(Tail(s)) ELSE s

RECURSIVE TrimRight(_)
TrimRight(s) ==
    IF s # << >> /\ IsSpace(s[Len(s)]) THEN TrimRight(SubSeq(s, 1, Len(s) - 1)) ELSE s

\* String.prototype.trim
Trim(s) == TrimRight(TrimLeft(s))

\* (text || ''): null and undefined read as the empty string
OrEmpty(text) == IF text = Null THEN EmptyString ELSE text[1]

\* the string a value becomes when it is appended to a string
AsString(text) == IF text = Null THEN <<"n", "u", "l", "l">> ELSE text[1]

\* Array.prototype.join over strings
RECURSIVE Join(_, _)
Join(parts, sep) ==
    IF parts = << >> THEN EmptyString
    ELSE IF Len(parts) = 1 THEN parts[1]
    ELSE parts[1] \o sep \o Join(Tail(parts), sep)

\* the decimal digits of a natural number (Number.prototype.toString)
RECURSIVE NumToString(_)
NumToString(n) ==
    IF n < 10 THEN <<Digits[n + 1]>>
    ELSE NumToString(n \div 10) \o <<Digits[(n % 10) + 1]>>

(***************************************************************************)
(* _extractNumbering                                                       *)
(***************************************************************************)
\* the match of NUMBERING_PATTERN /^[\d\W_]+/ : the leading run, '' if none
NumberingMatch(text) == SubSeq(text, 1, PrefixLen(text, "[\\d\\W_]"))

\* matchedString.split(/[\W_]+/).filter(token => token != ''): the maximal
\* runs of digits of a string made of digits, non-word characters and '_'
RECURSIVE DigitTokens(_)
DigitTokens(s) ==
    IF s = << >> THEN << >>
    ELSE IF ~IsDigit(s[1]) THEN DigitTokens(Tail(s))
    ELSE LET n == PrefixLen(s, "\\d")
         IN  <<SubSeq(s, 1, n)>> \o DigitTokens(DropFirst(s, n))

\* while (token.charAt(0) == '0' && token.length > 1) token = token.slice(1)
RECURSIVE StripLeadingZeros(_)
StripLeadingZeros(token) ==
    IF token[1] = "0" /\ Len(token) > 1 THEN StripLeadingZeros(Tail(token))
    ELSE token

\* parseInt of a string of decimal digits
RECURSIVE ParseInt(_)
ParseInt(token) ==
    IF Len(token) = 1 THEN DigitValue(token[1])
    ELSE 10 * ParseInt(SubSeq(token, 1, Len(token) - 1)) + DigitValue(token[Len(token)])

\* _extractNumbering without its test of rawSegments.length
ExtractNumberingOfAnyRun(text0) ==
    LET text == Trim(OrEmpty(text0))
        matchedString == NumberingMatch(text)
        rawSegments == DigitTokens(matchedString)
    IN  IF text = EmptyString THEN Null
        ELSE IF matchedString = EmptyString THEN Null
        ELSE Some([i \in DOMAIN rawSegments |->
                        ParseInt(StripLeadingZeros(rawSegments[i]))])

ExtractNumbering(text0) ==
    LET text == Trim(OrEmpty(text0))
        matchedString == NumberingMatch(text)
        rawSegments == DigitTokens(matchedString)
    IN  IF text = EmptyString THEN Null
        ELSE IF matchedString = EmptyString THEN Null
        ELSE IF rawSegments = << >> THEN Null
        ELSE Some([i \in DOMAIN rawSegments |->
                        ParseInt(StripLeadingZeros(rawSegments[i]))])

(***************************************************************************)
(* tidyUpLabel                                                             *)
(***************************************************************************)
\* the "en dash" character
EnDash == "u2013"

\* (s.match(/class+/g) || []).length : the number of maximal runs of characters of a class
RECURSIVE CountRuns(_, _)
CountRuns(s, class) ==
    IF s = << >> THEN 0
    ELSE IF InClass(class, s[1]) THEN 1 + CountRuns(DropFirst(s, PrefixLen(s, class)), class)
    ELSE CountRuns(Tail(s), class)

\* s.replace(/class+/g, rep) : every maximal run of characters of a class becomes rep
RECURSIVE ReplaceRuns(_, _, _)
ReplaceRuns(s, class, rep) ==
    IF s = << >> THEN << >>
    ELSE IF InClass(class, s[1]) THEN rep \o ReplaceRuns(DropFirst(s, PrefixLen(s, class)), class, rep)
    ELSE <<s[1]>> \o ReplaceRuns(Tail(s), class, rep)

\* s.split(' ')
RECURSIVE SplitOnSpace(_)
SplitOnSpace(s) ==
    LET n == PrefixLen(s, "[^ ]")
    IN  IF n = Len(s) THEN <<s>>
        ELSE <<SubSeq(s, 1, n)>> \o SplitOnSpace(DropFirst(s, n + 1))

KNOWN_LOWER_CASE ==
    {<<"a">>, <<"a", "n">>, <<"a", "n", "d">>, <<"a", "s">>, <<"a", "t">>, 
     <<"b", "u", "t">>, <<"b", "y">>, <<"e", "n">>, <<"f", "o", "r">>, 
     <<"i", "f">>, <<"i", "n">>, <<"o", "f">>, <<"o", "n">>, <<"o", "r">>, 
     <<"t", "h", "e">>, <<"t", "o">>, <<"v">>, <<"v", ".">>, 
     <<"v", "i", "a">>, <<"v", "s">>, <<"v", "s", ".">>}

\* optionsData.customAcronyms of the run
CustomAcronyms == {<<"M", "t", "f">>}

\* the built-in acronyms, and every custom acronym in lower case
BUILTIN_UPPER_CASE ==
    {<<"t", "o", "d", "o">>, <<"i", "m", "o">>, <<"i", "m", "h", "o">>, 
     <<"a", "f", "a", "i", "k">>, <<"f", "y", "i">>, <<"a", "t", "&", "t">>, 
     <<"q", "&", "a">>, <<"u", "i">>, <<"u", "x">>, <<"r", "s", "v", "p">>, 
     <<"e", "t", "a">>, <<"f", "a", "q">>, <<"a", "t", "m">>, 
     <<"r", "i", "p">>, <<"p", ".", "s", ".">>, <<"d", "i", "y">>, 
     <<"i", "d">>, <<"i", "q">>, <<"g", "m", "o">>, <<"p", "c">>, 
     <<"p", "r">>, <<"s", "o", "s">>, <<"a", "d">>, <<"b", "c">>, 
     <<"h", "r">>}

KNOWN_UPPER_CASE == BUILTIN_UPPER_CASE \cup {ToLowerCase(a) : a \in CustomAcronyms}

\* token.replace(/\w\S*/g, txt => txt.charAt(0).toUpperCase() +
\* txt.substr(1).toLowerCase()) for a token without white space
Capitalize(token) ==
    LET k == PrefixLen(token, "\\W") + 1
    IN  IF k > Len(token) THEN token
        ELSE SubSeq(token, 1, k - 1) \o <<ToUpperChar(token[k])>>
             \o ToLowerCase(DropFirst(token, k))

TitleCaseToken(tokens, i) ==
    LET token == tokens[i]
    IN  IF token \in KNOWN_LOWER_CASE /\ i # 1 /\ i # Len(tokens) THEN ToLowerCase(token)
        ELSE IF token \in KNOWN_UPPER_CASE THEN ToUpperCase(token)
        ELSE Capitalize(token)

\* the separator normalisation of tidyUpLabel
EnforceWhiteSpace(label) ==
    LET numSpaceUses == CountRuns(label, "\\s")
        numDashUses == CountRuns(label, "[\\-]")
        numUnderScoreUses == CountRuns(label, "[\\_]")
        maxUses == IF numDashUses > numUnderScoreUses THEN numDashUses
                   ELSE numUnderScoreUses
        labelUsesDashesOrUnderscores == numDashUses > 0 \/ numUnderScoreUses > 0
        whiteSpaceIsScarce == numSpaceUses < maxUses
        replaced == IF numDashUses > numUnderScoreUses
                        THEN ReplaceRuns(label, "[\\-]", <<" ">>)
                    ELSE IF numUnderScoreUses > numDashUses
                        THEN ReplaceRuns(label, "[\\_]", <<" ">>)
                    ELSE ReplaceRuns(label, "[\\_\\-]", <<" ">>)
    IN  Trim(ReplaceRuns(IF labelUsesDashesOrUnderscores /\ whiteSpaceIsScarce
                            THEN replaced ELSE label,
                         "\\s", <<" ">>))

\* the case normalisation of tidyUpLabel without its test of mustChangeCase
ChangeCaseAlways(label) ==
    LET tokens == SplitOnSpace(ToLowerCase(label))
    IN  Join([i \in DOMAIN tokens |-> TitleCaseToken(tokens, i)], <<" ">>)

\* the case normalisation of tidyUpLabel
ChangeCase(label) ==
    LET isAllCaps == ToUpperCase(label) = label
        isAllLower == ToLowerCase(label) = label
        tokens == SplitOnSpace(ToLowerCase(label))
    IN  IF isAllCaps \/ isAllLower
        THEN Join([i \in DOMAIN tokens |-> TitleCaseToken(tokens, i)], <<" ">>)
        ELSE label

tidyUpLabel(label, removeNumbering) ==
    LET trimmed == Trim(OrEmpty(label))
        unnumbered == IF removeNumbering
                      THEN Trim(DropFirst(trimmed, Len(NumberingMatch(trimmed))))
                      ELSE trimmed
    IN  IF trimmed = EmptyString THEN label
        ELSE Some(ReplaceRuns(ChangeCase(EnforceWhiteSpace(unnumbered)),
                              "[\\-]", <<EnDash>>))

(***************************************************************************)
(* Paths (the functions of Node's path module the engine uses)             *)
(***************************************************************************)
\* Path.dirname: the parent of "/" is "/"
Dirname(path) == IF path = << >> THEN path ELSE SubSeq(path, 1, Len(path) - 1)

\* the position of the last '.' of a name, 0 if there is none
RECURSIVE LastDot(_, _)
LastDot(name, i) ==
    IF i = 0 THEN 0 ELSE IF name[i] = "." THEN i ELSE LastDot(name, i - 1)

\* Path.extname of a name without separators: from the last '.' on, and ''
\* when there is no '.' or the only '.' is the first character
ExtName(name) ==
    LET k == LastDot(name, Len(name))
    IN  IF k <= 1 THEN EmptyString ELSE SubSeq(name, k, Len(name))

\* getFileName(pathString, true) for a name without separators
StripExtension(name) == SubSeq(name, 1, Len(name) - Len(ExtName(name)))

\* changeFileExtension
changeFileExtension(fileName, newExtension) ==
    StripExtension(fileName)
        \o (IF newExtension # EmptyString THEN <<".">> \o newExtension ELSE EmptyString)

(***************************************************************************)
(* The source folder of the run: the entries the walk can report. Every    *)
(* entry is reported at most once; the order of the reports is free.       *)
(***************************************************************************)
DIR ==
    <<"9", "0", "7", "d", "1", "e", "2", "a", "-", "6", "b", "c",
      "2", "-", "4", "9", "d", "5", "-", "b", "0", "3", "6", "-",
      "5", "7", "d", "c", "e", "a", "0", "d", "9", "c", "f", "1">>
ROOT ==
    <<"8", "a", "f", "3", "5", "e", "b", "b", "-", "6", "e", "3",
      "5", "-", "4", "9", "b", "6", "-", "9", "8", "8", "d", "-",
      "4", "2", "7", "8", "7", "a", "b", "7", "1", "1", "0", "d">>
TXT == <<"t", "x", "t">>

NameRoot == <<"r">>
NameA == <<"1", " ", "A", ".", "t", "x", "t">>
NameB == <<"1", ".", "1", " ", "B", ".", "t", "x", "t">>
NameC == <<"1", ".", "1", ".", "1", " ", "C", ".", "t", "x", "t">>
NameD == <<"2", " ", "D", ".", "t", "x", "t">>
NameIntro == <<"i", "n", "t", "r", "o", ".", "t", "x", "t">>
NameDir == <<"1", ".", "0", ".", "5", " ", "d">>
NameX == <<"x", ".", "t", "x", "t">>
NameSub == <<"s">>
NameImg == <<"i", ".", "p", "n", "g">>

RootPath == <<NameRoot>>
DirPath == <<NameRoot, NameDir>>
SubPath == <<NameRoot, NameDir, NameSub>>

Entry(path, kind, header, mtime) ==
    [path |-> path, kind |-> kind, header |-> header, ctime |-> 0, mtime |-> mtime]

RootEntry == Entry(RootPath, ROOT, Null, 0)

DirEntries == {Entry(DirPath, DIR, Null, 0), Entry(SubPath, DIR, Null, 0)}

FileEntries ==
    {Entry(<<NameRoot, NameA>>, TXT, Null, 0),
     Entry(<<NameRoot, NameB>>, TXT, Null, 0),
     Entry(<<NameRoot, NameC>>, TXT, Null, 0),
     Entry(<<NameRoot, NameD>>, TXT, Null, 0),
     Entry(<<NameRoot, NameIntro>>, TXT, Some(<<"F", "A", "Q">>), 1),
     Entry(<<NameRoot, NameDir, NameX>>, TXT,
           Some(<<"2", ".", "1", " ", "t", "o", "d", "o">>), 0)}

\* the files of the folder the walk skips because of their type
ImgInRoot == <<NameRoot, NameImg>>
ImgInDir == <<NameRoot, NameDir, NameImg>>
ImgInSub == <<NameRoot, NameDir, NameSub, NameImg>>

\* getFileName(path): the last name of a path, and '' for the path of the
\* root of the file system
Name(path) == IF path = << >> THEN EmptyString ELSE path[Len(path)]

(***************************************************************************)
(* The state of a MetaTextEngine instance, and of the process using it     *)
(***************************************************************************)
VARIABLES
    mustHideNavNumbering,   \* _mustHideNavNumbering
    isIndexSealed,          \* _isIndexSealed
    flat,                   \* _flatCompilationsList: the unit objects
    tree,                   \* _abstractNavigationTree: unit references
    rawGroups,              \* _rawGroups: references to children arrays, each
                            \* named by the unit that owns the array
    foldersToExclude,       \* _foldersToExclude
    crashed,                \* the process has ended with an uncaught exception,
                            \* or is inside a call that never returns
    op,                     \* the last call made on the engine
    arg,                    \* its argument
    ret,                    \* the value it returned (Undefined if none)
    htmlRegistry,           \* the registry of the factory of the last call of
                            \* _buildHtmlNavigation, as that call left it
    skippedEver,            \* history: the skipped files buildIndex was told of
    firstMarkup             \* history: for each document, the markup of the first
                            \* navigation rendered for it since the index was
                            \* sealed or last changed (Null if none), and whether
                            \* a navigation was rendered for it again since

index == <<mustHideNavNumbering, isIndexSealed, flat, tree, rawGroups, foldersToExclude>>
vars == <<mustHideNavNumbering, isIndexSealed, flat, tree, rawGroups, foldersToExclude,
          crashed, op, arg, ret, htmlRegistry, skippedEver,
          firstMarkup>>

\* a unit object as the insertion operations create it; the flags isNode and
\* mustExclude are only ever tested for being true, and are FALSE while unset
NewUnit(e, extension, header, isNode) ==
    [filePath |-> e.path, fileName |-> Name(e.path), fileExtension |-> extension,
     fileCTime |-> e.ctime, fileMTime |-> e.mtime, fileHeader |-> header,
     isNode |-> isNode, numberingSignature |-> EmptyString,
     numbering |-> Undefined, parent |-> Undefined, children |-> Undefined,
     mustExclude |-> FALSE]

\* numbering.join('.') + '. '
NumberingSignature(numbering) ==
    Join([i \in DOMAIN numbering |-> NumToString(numbering[i])], <<".">>) \o <<".", " ">>

\* the unit with its numbering and numbering signature set, when it has a numbering
WithNumbering(unit, numbering) ==
    IF numbering # Null
    THEN [unit EXCEPT !.numbering = numbering,
                      !.numberingSignature = NumberingSignature(numbering[1])]
    ELSE unit

\* headerPrefix + tidyUpLabel(header)
WithHeader(unit, header, hide) ==
    LET headerPrefix == IF hide THEN EmptyString ELSE unit.numberingSignature
        label == tidyUpLabel(header, TRUE)
    IN  [unit EXCEPT !.fileHeader = Some(headerPrefix \o AsString(label))]

\* _flatCompilationsList.filter(unit => unit.filePath == path)[0], as a
\* position in the list; 0 when the filter finds nothing (undefined)
FindUnit(list, path) ==
    LET found == {i \in DOMAIN list : list[i].filePath = path}
    IN  IF found = {} THEN 0 ELSE CHOOSE i \in found : \A j \in found : i <= j

\* the registry and the pending groups after the unit at position u was moved
\* under the unit at position p (the tail of addDirectoryToIndex and addFileToIndex)
Attach(list, groups, u, p) ==
    LET hadChildren == list[p].children # Undefined
        children == IF hadChildren THEN list[p].children[1] ELSE << >>
    IN  [list |-> [list EXCEPT ![u].parent = Some(list[p].filePath),
                               ![p].isNode = TRUE,
                               ![p].children = Some(Append(children, u))],
         groups |-> IF hadChildren THEN groups ELSE Append(groups, p)]

\* an uncaught exception: the call has no result and the process ends
Throws(name, a) ==
    /\ crashed' = TRUE
    /\ op' = name
    /\ arg' = a
    /\ ret' = Undefined

\* a call that never returns
Hangs(name, a) ==
    /\ crashed' = TRUE
    /\ op' = name
    /\ arg' = a
    /\ ret' = Undefined

Returns(name, a, value) ==
    /\ crashed' = FALSE
    /\ op' = name
    /\ arg' = a
    /\ ret' = value

\* the documents the queries are made for
DocIds == {<<NameRoot, NameA>>, <<NameRoot, NameDir, NameX>>}
NoneRendered == [d \in DocIds |-> Null]

NotReported(e) == \A i \in DOMAIN flat : flat[i].filePath # e.path

Init ==
    /\ mustHideNavNumbering \in BOOLEAN
    /\ isIndexSealed = FALSE
    /\ flat = << >>
    /\ tree = << >>
    /\ rawGroups = << >>
    /\ foldersToExclude = << >>
    /\ crashed = FALSE
    /\ op = "new"
    /\ arg = Undefined
    /\ ret = Undefined
    /\ htmlRegistry = EmptyRegistry
    /\ skippedEver = {}
    /\ firstMarkup = NoneRendered

(***************************************************************************)
(* addRootToIndex                                                          *)
(***************************************************************************)
addRootToIndex(e) ==
    /\ ~crashed
    /\ htmlRegistry' = EmptyRegistry
    /\ firstMarkup' = NoneRendered
    /\ UNCHANGED skippedEver
    /\ NotReported(e)
    /\ IF isIndexSealed
       THEN /\ Throws("addRootToIndex", Some(e.path))
            /\ UNCHANGED index
       ELSE LET unit == NewUnit(e, ROOT, tidyUpLabel(Some(Name(e.path)), TRUE), TRUE)
            IN  /\ tree' = <<Len(flat) + 1>> \o tree
                /\ flat' = Append(flat, unit)
                /\ Returns("addRootToIndex", Some(e.path), Undefined)
                /\ UNCHANGED <<mustHideNavNumbering, isIndexSealed, rawGroups,
                               foldersToExclude>>

(***************************************************************************)
(* addDirectoryToIndex                                                     *)
(***************************************************************************)
addDirectoryToIndex(e) ==
    /\ ~crashed
    /\ htmlRegistry' = EmptyRegistry
    /\ firstMarkup' = NoneRendered
    /\ UNCHANGED skippedEver
    /\ NotReported(e)
    /\ IF isIndexSealed
       THEN /\ Throws("addDirectoryToIndex", Some(e.path))
            /\ UNCHANGED index
       ELSE LET u == Len(flat) + 1
                pushed == Append(flat, NewUnit(e, DIR, Some(Name(e.path)), FALSE))
                p == FindUnit(pushed, Dirname(e.path))
                attached == Attach(pushed, rawGroups, u, p)
                numbered == WithNumbering(attached.list[u],
                                          ExtractNumbering(Some(Name(e.path))))
                unit == WithHeader(numbered, numbered.fileHeader, mustHideNavNumbering)
            IN  IF p = 0
                THEN \* parent is undefined: parent.filePath is a TypeError
                     /\ flat' = pushed
                     /\ Throws("addDirectoryToIndex", Some(e.path))
                     /\ UNCHANGED <<mustHideNavNumbering, isIndexSealed, tree, rawGroups,
                                    foldersToExclude>>
                ELSE /\ flat' = [attached.list EXCEPT ![u] = unit]
                     /\ rawGroups' = attached.groups
                     /\ Returns("addDirectoryToIndex", Some(e.path), Undefined)
                     /\ UNCHANGED <<mustHideNavNumbering, isIndexSealed, tree,
                                    foldersToExclude>>

(***************************************************************************)
(* addFileToIndex                                                          *)
(***************************************************************************)
\* addFileToIndex past its check of the seal
insertFile(e) ==
    LET u == Len(flat) + 1
        fileName == Name(e.path)
        fromName == ExtractNumbering(Some(fileName))
        numbering == IF fromName = Null THEN ExtractNumbering(e.header) ELSE fromName
        numbered == WithNumbering(NewUnit(e, e.kind, e.header, FALSE), numbering)
        fileHeader == IF OrEmpty(e.header) = EmptyString
                      THEN Some(changeFileExtension(fileName, EmptyString))
                      ELSE e.header
        unit == WithHeader(numbered, fileHeader, mustHideNavNumbering)
        pushed == Append(flat, unit)
        p == FindUnit(pushed, Dirname(e.path))
        attached == Attach(pushed, rawGroups, u, p)
    IN  IF p = 0
        THEN \* parent is undefined: parent.filePath is a TypeError
             /\ flat' = pushed
             /\ Throws("addFileToIndex", Some(e.path))
             /\ UNCHANGED <<mustHideNavNumbering, isIndexSealed, tree, rawGroups,
                            foldersToExclude>>
        ELSE /\ flat' = attached.list
             /\ rawGroups' = attached.groups
             /\ Returns("addFileToIndex", Some(e.path), Undefined)
             /\ UNCHANGED <<mustHideNavNumbering, isIndexSealed, tree,
                            foldersToExclude>>

\* addFileToIndex without its check of the seal
addFileToIndexUnchecked(e) ==
    /\ ~crashed
    /\ htmlRegistry' = EmptyRegistry
    /\ firstMarkup' = NoneRendered
    /\ UNCHANGED skippedEver
    /\ NotReported(e)
    /\ insertFile(e)

addFileToIndex(e) ==
    /\ ~crashed
    /\ htmlRegistry' = EmptyRegistry
    /\ firstMarkup' = NoneRendered
    /\ UNCHANGED skippedEver
    /\ NotReported(e)
    /\ IF isIndexSealed
       THEN /\ Throws("addFileToIndex", Some(e.path))
            /\ UNCHANGED index
       ELSE insertFile(e)

(***************************************************************************)
(* _multiPartComparison                                                    *)
(***************************************************************************)
\* aSegments[i] || 0, for a position i counted from 1
SegmentAt(segments, i) == IF i <= Len(segments) THEN segments[i] ELSE 0

\* the first non-zero difference of the segments at positions i..maxLength, and
\* 0 when there is none
RECURSIVE FirstDelta(_, _, _, _)
FirstDelta(aSegments, bSegments, i, maxLength) ==
    IF i > maxLength THEN 0
    ELSE LET delta == SegmentAt(aSegments, i) - SegmentAt(bSegments, i)
         IN  IF delta # 0 THEN delta
             ELSE FirstDelta(aSegments, bSegments, i + 1, maxLength)

\* _multiPartComparison without its fallback to the longest operand
multiPartComparisonByDelta(unitA, unitB) ==
    IF unitA.numbering = Null THEN 0
    ELSE IF Len(unitA.numbering[1]) = 0 THEN 0
    ELSE IF unitB.numbering = Null THEN 0
    ELSE IF Len(unitB.numbering[1]) = 0 THEN 0
    ELSE LET aSegments == unitA.numbering[1]
             bSegments == unitB.numbering[1]
             numASegments == Len(aSegments)
             numBSegments == Len(bSegments)
             maxLength == IF numASegments > numBSegments THEN numASegments
                          ELSE numBSegments
         IN  FirstDelta(aSegments, bSegments, 1, maxLength)

multiPartComparison(unitA, unitB) ==
    IF unitA.numbering = Null THEN 0
    ELSE IF Len(unitA.numbering[1]) = 0 THEN 0
    ELSE IF unitB.numbering = Null THEN 0
    ELSE IF Len(unitB.numbering[1]) = 0 THEN 0
    ELSE LET aSegments == unitA.numbering[1]
             bSegments == unitB.numbering[1]
             numASegments == Len(aSegments)
             numBSegments == Len(bSegments)
             maxLength == IF numASegments > numBSegments THEN numASegments
                          ELSE numBSegments
             delta == FirstDelta(aSegments, bSegments, 1, maxLength)
         IN  IF delta # 0 THEN delta ELSE numASegments - numBSegments

(***************************************************************************)
(* group.sort(_multiPartComparison): Array.prototype.sort as the engine of *)
(* Node runs it on an array shorter than 64 elements: the leading run is   *)
(* counted (and reversed if strictly descending), and every further        *)
(* element is put in place by a binary insertion.  With a consistent       *)
(* comparator this is a stable sort; _multiPartComparison is not one when  *)
(* some unit has no numbering.                                             *)
(***************************************************************************)
\* the comparator applied to two unit references
Compare(list, a, b) == multiPartComparison(list[a], list[b])

Reverse(s) == [i \in DOMAIN s |-> s[Len(s) + 1 - i]]

\* the length of the run that starts the array, given that positions 1..idx-1
\* are part of it
RECURSIVE RunLength(_, _, _, _)
RunLength(list, array, isDescending, idx) ==
    IF idx > Len(array) THEN idx - 1
    ELSE LET order == Compare(list, array[idx], array[idx - 1])
         IN  IF (isDescending /\ order >= 0) \/ (~isDescending /\ order < 0)
             THEN idx - 1
             ELSE RunLength(list, array, isDescending, idx + 1)

\* where the pivot belongs among array[left + 1 .. right] (binary search)
RECURSIVE InsertionPoint(_, _, _, _, _)
InsertionPoint(list, array, pivot, left, right) ==
    IF left >= right THEN left
    ELSE LET mid == left + ((right - left) \div 2)
             order == Compare(list, pivot, array[mid + 1])
         IN  IF order < 0 THEN InsertionPoint(list, array, pivot, left, mid)
             ELSE InsertionPoint(list, array, pivot, mid + 1, right)

\* the array with the elements at positions start + 1 .. Len(array) inserted, one
\* after the other, into the sorted prefix before them
RECURSIVE BinaryInsertionSort(_, _, _)
BinaryInsertionSort(list, array, start) ==
    IF start >= Len(array) THEN array
    ELSE LET pivot == array[start + 1]
             left == InsertionPoint(list, array, pivot, 0, start)
             moved == SubSeq(array, 1, left) \o <<pivot>>
                      \o SubSeq(array, left + 1, start)
                      \o SubSeq(array, start + 2, Len(array))
         IN  BinaryInsertionSort(list, moved, start + 1)

SortGroup(list, array) ==
    IF Len(array) < 2 THEN array
    ELSE LET isDescending == Compare(list, array[2], array[1]) < 0
             runLength == RunLength(list, array, isDescending, 3)
             run == IF isDescending
                    THEN Reverse(SubSeq(array, 1, runLength))
                         \o SubSeq(array, runLength + 1, Len(array))
                    ELSE array
         IN  BinaryInsertionSort(list, run, runLength)

\* _rawGroups.forEach(group => group.sort(_multiPartComparison))
RECURSIVE SortGroups(_, _, _)
SortGroups(list, groups, k) ==
    IF k > Len(groups) THEN list
    ELSE LET g == groups[k]
         IN  SortGroups([list EXCEPT ![g].children = Some(SortGroup(list, list[g].children[1]))],
                        groups, k + 1)

(***************************************************************************)
(* buildIndex: the promotion of documents under their left sibling         *)
(***************************************************************************)
\* group.splice(i) in place of group.splice(i, 1): the units from i on leave
RemoveFrom(s, i) == SubSeq(s, 1, i - 1)

RemoveAt(s, i) == SubSeq(s, 1, i - 1) \o SubSeq(s, i + 1, Len(s))

\* the condition of the promotion with >= in place of > on the lengths
MustPromoteOrEqual(unit, prevUnit) ==
    /\ unit.fileExtension # DIR
    /\ prevUnit.fileExtension # DIR
    /\ unit.numbering # Undefined
    /\ prevUnit.numbering # Undefined
    /\ Len(unit.numbering[1]) >= Len(prevUnit.numbering[1])

\* the condition of the promotion without its tests of the kinds of the units
MustPromoteAnyKind(unit, prevUnit) ==
    /\ unit.numbering # Undefined
    /\ prevUnit.numbering # Undefined
    /\ Len(unit.numbering[1]) > Len(prevUnit.numbering[1])

\* the condition under which a unit is moved under the unit to its left
MustPromote(unit, prevUnit) ==
    /\ unit.fileExtension # DIR
    /\ prevUnit.fileExtension # DIR
    /\ unit.numbering # Undefined
    /\ prevUnit.numbering # Undefined
    /\ Len(unit.numbering[1]) > Len(prevUnit.numbering[1])

\* the promotion without prevUnit.isNode = true
PromoteUnflagged(list, groups, g, i) ==
    LET group == list[g].children[1]
        u == group[i + 1]
        prev == group[i]
        hadChildren == list[prev].children # Undefined
        children == IF hadChildren THEN list[prev].children[1] ELSE << >>
    IN  [list |-> [list EXCEPT ![g].children = Some(RemoveAt(group, i + 1)),
                               ![prev].children = Some(Append(children, u))],
         groups |-> IF hadChildren THEN groups ELSE Append(groups, prev)]

\* prevUnit.children.push(group.splice(i, 1)[0]), for the group owned by the
\* unit at g and the scan index i (counted from 0, as in the code)
Promote(list, groups, g, i) ==
    LET group == list[g].children[1]
        u == group[i + 1]
        prev == group[i]
        hadChildren == list[prev].children # Undefined
        children == IF hadChildren THEN list[prev].children[1] ELSE << >>
    IN  [list |-> [list EXCEPT ![g].children = Some(RemoveAt(group, i + 1)),
                               ![prev].children = Some(Append(children, u)),
                               ![prev].isNode = TRUE],
         groups |-> IF hadChildren THEN groups ELSE Append(groups, prev)]

\* the loop over one group with the scan index advanced after a promotion too
RECURSIVE ScanGroupAdvancing(_, _, _, _)
ScanGroupAdvancing(list, groups, g, i) ==
    LET group == list[g].children[1]
        promote == i > 0 /\ MustPromote(list[group[i + 1]], list[group[i]])
        after == IF promote THEN Promote(list, groups, g, i)
                 ELSE [list |-> list, groups |-> groups]
    IN  IF i + 1 < Len(after.list[g].children[1])
        THEN ScanGroupAdvancing(after.list, after.groups, g, i + 1)
        ELSE after

\* the do ... while (i < group.length) loop over one group, from index i on
RECURSIVE ScanGroup(_, _, _, _)
ScanGroup(list, groups, g, i) ==
    LET group == list[g].children[1]
        promote == i > 0 /\ MustPromote(list[group[i + 1]], list[group[i]])
        after == IF promote THEN Promote(list, groups, g, i)
                 ELSE [list |-> list, groups |-> groups]
        nextI == IF promote THEN i ELSE i + 1
    IN  IF nextI < Len(after.list[g].children[1])
        THEN ScanGroup(after.list, after.groups, g, nextI)
        ELSE after

\* the promotion over the groups the insertions made only: a group made by
\* the promotion is not queued
RECURSIVE PromoteGroupsOnce(_, _)
PromoteGroupsOnce(list, groups) ==
    IF groups = << >> THEN [list |-> list, groups |-> groups]
    ELSE PromoteGroupsOnce(ScanGroup(list, Tail(groups), Head(groups), 0).list,
                           Tail(groups))

\* while (_rawGroups.length > 0) { const group = _rawGroups.shift(); ... }
RECURSIVE PromoteGroups(_, _)
PromoteGroups(list, groups) ==
    IF groups = << >> THEN [list |-> list, groups |-> groups]
    ELSE LET scanned == ScanGroup(list, Tail(groups), Head(groups), 0)
         IN  PromoteGroups(scanned.list, scanned.groups)

(***************************************************************************)
(* buildIndex: the folders of the skipped files                            *)
(***************************************************************************)
\* the loop of one skipped path that also pushes the root folder
RECURSIVE ExcludeAncestorsAndRoot(_, _, _)
ExcludeAncestorsAndRoot(folders, skippedPath, rootFolderPath) ==
    LET parentPath == Dirname(skippedPath)
        pushed == IF \E k \in DOMAIN folders : folders[k] = parentPath THEN folders
                  ELSE Append(folders, parentPath)
    IN  IF parentPath = rootFolderPath THEN [folders |-> pushed, ends |-> TRUE]
        ELSE IF parentPath = << >> THEN [folders |-> pushed, ends |-> FALSE]
        ELSE ExcludeAncestorsAndRoot(pushed, parentPath, rootFolderPath)

\* the do ... while (true) loop of one skipped path: the folders to exclude
\* after it.  The loop ends only at the root folder of the compilation; a walk
\* that has reached "/" without meeting it never ends.
RECURSIVE ExcludeAncestors(_, _, _)
ExcludeAncestors(folders, skippedPath, rootFolderPath) ==
    LET parentPath == Dirname(skippedPath)
        pushed == IF \E k \in DOMAIN folders : folders[k] = parentPath THEN folders
                  ELSE Append(folders, parentPath)
    IN  IF parentPath = rootFolderPath THEN [folders |-> folders, ends |-> TRUE]
        ELSE IF parentPath = << >> THEN [folders |-> pushed, ends |-> FALSE]
        ELSE ExcludeAncestors(pushed, parentPath, rootFolderPath)

\* skippedFilePaths.forEach(...), from the k-th path on
RECURSIVE ExcludeAll(_, _, _, _)
ExcludeAll(folders, skippedFilePaths, k, rootFolderPath) ==
    IF k > Len(skippedFilePaths) THEN [folders |-> folders, ends |-> TRUE]
    ELSE LET one == ExcludeAncestors(folders, skippedFilePaths[k], rootFolderPath)
         IN  IF one.ends THEN ExcludeAll(one.folders, skippedFilePaths, k + 1, rootFolderPath)
             ELSE one

\* unitsToExclude.forEach(unit => unit.mustExclude = true)
MarkExcluded(list, folders) ==
    [i \in DOMAIN list |->
        IF \E k \in DOMAIN folders : folders[k] = list[i].filePath
        THEN [list[i] EXCEPT !.mustExclude = TRUE] ELSE list[i]]

\* the lists of skipped files buildIndex is called with
SkippedLists ==
    {Null, Some(<<ImgInRoot>>), Some(<<ImgInDir>>), Some(<<ImgInSub, ImgInRoot>>)}

(***************************************************************************)
(* buildIndex                                                              *)
(***************************************************************************)
buildIndex(skippedFilePaths) ==
    /\ ~crashed
    /\ isIndexSealed' = TRUE
    /\ htmlRegistry' = EmptyRegistry
    /\ firstMarkup' = NoneRendered
    /\ skippedEver' = skippedEver \cup Range(OrEmpty(skippedFilePaths))
    /\ LET mustExcludeFolders == skippedFilePaths # Null /\ Len(skippedFilePaths[1]) > 0
           walk == IF mustExcludeFolders /\ flat # << >>
                   THEN ExcludeAll(foldersToExclude, skippedFilePaths[1], 1, flat[1].filePath)
                   ELSE [folders |-> foldersToExclude, ends |-> TRUE]
           marked == IF mustExcludeFolders /\ walk.folders # << >>
                     THEN MarkExcluded(flat, walk.folders) ELSE flat
           sorted == SortGroups(marked, rawGroups, 1)
           promoted == PromoteGroups(sorted, rawGroups)
       IN  IF mustExcludeFolders /\ flat = << >>
           THEN \* _flatCompilationsList[0] is undefined: .filePath is a TypeError
                /\ Throws("buildIndex", skippedFilePaths)
                /\ UNCHANGED <<mustHideNavNumbering, flat, tree, rawGroups, foldersToExclude>>
           ELSE IF ~walk.ends
           THEN \* the call never returns
                /\ foldersToExclude' = walk.folders
                /\ Hangs("buildIndex", skippedFilePaths)
                /\ UNCHANGED <<mustHideNavNumbering, flat, tree, rawGroups>>
           ELSE /\ foldersToExclude' = walk.folders
                /\ flat' = promoted.list
                /\ rawGroups' = promoted.groups
                /\ Returns("buildIndex", skippedFilePaths, Undefined)
                /\ UNCHANGED <<mustHideNavNumbering, tree>>

(***************************************************************************)
(* _makeRelUrl                                                             *)
(***************************************************************************)
\* Path.sep: '/' on a POSIX host, which is the host of the runs of the index,
\* and the backslash on a Windows host
Sep == "/"
HostSeparators == {"/", "\\"}
DotDot == <<".", ".">>
HtmlType == <<"h", "t", "m", "l">>

\* the number of leading segments two paths share
RECURSIVE CommonLength(_, _)
CommonLength(a, b) ==
    IF a = << >> \/ b = << >> \/ Head(a) # Head(b) THEN 0
    ELSE 1 + CommonLength(Tail(a), Tail(b))

\* Path.relative of two absolute paths: up from the first one to the deepest
\* folder both are in, then down to the second one ('' when they are equal)
PathRelativeOn(sep, fromPath, toPath) ==
    LET common == CommonLength(fromPath, toPath)
        ups == [i \in 1..(Len(fromPath) - common) |-> DotDot]
    IN  Join(ups \o DropFirst(toPath, common), <<sep>>)

PathRelative(fromPath, toPath) == PathRelativeOn(Sep, fromPath, toPath)

IsSeparator(c) == c = "/" \/ c = "\\"

\* .replace(LEFT_SEP, '') and .replace(RIGHT_SEP, '')
RECURSIVE StripLeftSep(_)
StripLeftSep(s) == IF s # << >> /\ IsSeparator(s[1]) THEN StripLeftSep(Tail(s)) ELSE s

RECURSIVE StripRightSep(_)
StripRightSep(s) ==
    IF s # << >> /\ IsSeparator(s[Len(s)]) THEN StripRightSep(SubSeq(s, 1, Len(s) - 1))
    ELSE s

\* .replace(BACKSLASH, '/')
SlashesOnly(s) == [i \in DOMAIN s |-> IF s[i] = "\\" THEN "/" ELSE s[i]]

\* getFileName(toPath): Path.basename, '' for the path "/"
FileNameOf(path) == IF path = << >> THEN EmptyString ELSE Name(path)

\* _makeRelUrl without its test of relPath: relPath always leads the segments
makeRelUrlWithRelPath(sep, fromPath, toPath, fileType, assumeFolders) ==
    LET targetFileName == changeFileExtension(FileNameOf(toPath), fileType)
        fromDirPath == Dirname(fromPath)
        toDirPath == Dirname(toPath)
        relPath == StripRightSep(StripLeftSep(Trim(
                       PathRelativeOn(sep, fromDirPath, toDirPath))))
        segments == IF assumeFolders THEN << >>
                    ELSE <<StripRightSep(StripLeftSep(Trim(targetFileName)))>>
    IN  SlashesOnly(Join(<<relPath>> \o segments, <<sep>>))

\* _makeRelUrl on a host with the path separator sep
makeRelUrlOn(sep, fromPath, toPath, fileType, assumeFolders) ==
    LET targetFileName == changeFileExtension(FileNameOf(toPath), fileType)
        fromDirPath == Dirname(fromPath)
        toDirPath == Dirname(toPath)
        relPath == StripRightSep(StripLeftSep(Trim(
                       PathRelativeOn(sep, fromDirPath, toDirPath))))
        segments == IF assumeFolders THEN << >>
                    ELSE <<StripRightSep(StripLeftSep(Trim(targetFileName)))>>
        all == IF relPath # EmptyString THEN <<relPath>> \o segments ELSE segments
    IN  SlashesOnly(Join(all, <<sep>>))

makeRelUrl(fromPath, toPath, fileType, assumeFolders) ==
    makeRelUrlOn(Sep, fromPath, toPath, fileType, assumeFolders)

(***************************************************************************)
(* HtmlElementProxy and HtmlElementProxyFactory.  Markup is a string whose *)
(* tags are single characters of the model; "%s" is the place holder of a  *)
(* template.  An element is registered under its id, a pair of a file path *)
(* and a suffix, and an element refers to its child elements by their ids. *)
(***************************************************************************)
Placeholder == "%s"
NewLine == "\n"
NAV_ROOT_TEMPLATE == <<"<div class=navigation>", Placeholder, "</div>">>
NAV_GROUP_TEMPLATE == <<"<ul class=nav-group>", Placeholder, "</ul>">>
NAV_ITEM_TEMPLATE == <<"<li class=nav-item>", Placeholder, "</li>">>
NAV_ITEM_CONTENT_TEMPLATE == <<"<label class=item-content>", Placeholder, "</label>">>
LINK_TEMPLATE == <<"<a href=", Placeholder, ">", Placeholder, "</a>">>

RegisteredAt(registry, id) == {k \in DOMAIN registry : registry[k].id = id}
IsRegistered(registry, id) == RegisteredAt(registry, id) # {}
ElementAt(registry, id) == CHOOSE k \in RegisteredAt(registry, id) : TRUE

\* getHtmlElementProxy: the registry after the call
getHtmlElementProxy(registry, id, template, data) ==
    Only({IF IsRegistered(cache, id) THEN cache
          ELSE Append(cache, [id |-> id, template |-> template, data |-> data,
                              children |-> << >>]) : cache \in {registry}})

\* addChild with unshift in place of push: the child goes before the others
addChildFirst(registry, parentId, childId) ==
    Only({[cache EXCEPT ![ElementAt(cache, parentId)].children = <<childId>> \o @] :
          cache \in {registry}})

\* parent.addChild(child), for two registered elements
addChild(registry, parentId, childId) ==
    Only({[cache EXCEPT ![ElementAt(cache, parentId)].children = Append(@, childId)] :
          cache \in {registry}})

\* vsprintf: every place holder of the template takes the next argument
RECURSIVE vsprintf(_, _)
vsprintf(template, templateArgs) ==
    IF template = << >> THEN << >>
    ELSE IF Head(template) = Placeholder
         THEN Head(templateArgs) \o vsprintf(Tail(template), Tail(templateArgs))
         ELSE <<Head(template)>> \o vsprintf(Tail(template), templateArgs)

\* HtmlElementProxy.render
RECURSIVE RenderElement(_, _)
RenderElement(registry, id) ==
    LET el == registry[ElementAt(registry, id)]
        rendered == [k \in DOMAIN el.children |-> RenderElement(registry, el.children[k])]
        stringifiedChildren == <<NewLine>> \o Join(rendered, <<NewLine>>) \o <<NewLine>>
    IN  vsprintf(el.template, el.data \o <<stringifiedChildren>>)

\* prettify (html-prettify): the layout of the markup is made canonical
prettify(markup) == SelectSeq(markup, LAMBDA c : c # NewLine)

(***************************************************************************)
(* _walkTree and the callback of _buildHtmlNavigation                      *)
(***************************************************************************)
ElementId(path, suffix) == <<path, suffix>>

\* the callback, for the unit at u below the unit at parent (0 at top level);
\* st is the registry of the factory and the id of $.rootHtmlEl
VisitIncluded(list, docId, u, parent, st) ==
    LET unit == list[u]
        id == unit.filePath
        reg == st.registry
        parentId == ElementId(list[parent].filePath, "")
        withParent == getHtmlElementProxy(reg, parentId, << >>, << >>)
        \* a list item, its content, and (when linked) the link inside it
        Item(itemSuffix, contentSuffix, linkSuffix, label, linked) ==
            LET r1 == getHtmlElementProxy(withParent, ElementId(id, itemSuffix),
                                          NAV_ITEM_TEMPLATE, << >>)
                r2 == getHtmlElementProxy(r1, ElementId(id, contentSuffix),
                                          NAV_ITEM_CONTENT_TEMPLATE,
                                          IF linked THEN << >> ELSE <<label>>)
                r3 == IF linked
                      THEN addChild(
                             getHtmlElementProxy(r2, ElementId(id, linkSuffix), LINK_TEMPLATE,
                                 <<makeRelUrl(docId, unit.filePath, HtmlType, FALSE),
                                   AsString(unit.fileHeader)>>),
                             ElementId(id, contentSuffix), ElementId(id, linkSuffix))
                      ELSE r2
                r4 == addChild(r3, ElementId(id, itemSuffix), ElementId(id, contentSuffix))
            IN  addChild(r4, parentId, ElementId(id, itemSuffix))
    IN  IF parent = 0
        THEN LET r1 == getHtmlElementProxy(reg, ElementId(id, "#container"),
                                           NAV_ROOT_TEMPLATE, << >>)
                 r2 == getHtmlElementProxy(r1, ElementId(id, ""), NAV_GROUP_TEMPLATE, << >>)
             IN  [registry |-> addChild(r2, ElementId(id, "#container"), ElementId(id, "")),
                  rootHtmlEl |-> Some(ElementId(id, "#container"))]
        ELSE IF unit.isNode
        THEN LET label == IF OrEmpty(unit.fileHeader) # EmptyString
                          THEN AsString(unit.fileHeader) ELSE unit.fileName
                 r1 == Item("#node_item", "#node_item_content", "#node_content_link",
                            label, unit.fileExtension # DIR)
                 r2 == getHtmlElementProxy(r1, ElementId(id, ""), NAV_GROUP_TEMPLATE, << >>)
             IN  [st EXCEPT !.registry = addChild(r2, parentId, ElementId(id, ""))]
        ELSE IF unit.fileExtension = DIR
        THEN [st EXCEPT !.registry =
                 Item("#node_item", "#node_item_content", "", AsString(unit.fileHeader), FALSE)]
        ELSE [st EXCEPT !.registry =
                 Item("", "#leaf_item_content", "#leaf_content_link", << >>, TRUE)]

\* the callback without its test of mustExclude
VisitUnitAlways(list, docId, u, parent, st) == VisitIncluded(list, docId, u, parent, st)

\* the callback of _buildHtmlNavigation
VisitUnit(list, docId, u, parent, st) ==
    IF list[u].mustExclude THEN st ELSE VisitIncluded(list, docId, u, parent, st)

\* _walkTree over the nodes from position k on.  The callback returns nothing,
\* so _walkTree.mustExitNow is never true and the walk visits every unit.
RECURSIVE WalkTree(_, _, _, _, _, _)
WalkTree(list, docId, nodes, k, parent, st) ==
    IF k > Len(nodes) THEN st
    ELSE LET currNode == nodes[k]
             Below(visited) == IF list[currNode].children # Undefined
                               THEN WalkTree(list, docId, list[currNode].children[1], 1,
                                             currNode, visited)
                               ELSE visited
         IN  Only({WalkTree(list, docId, nodes, k + 1, parent, below) :
                   below \in {Below(visited) :
                              visited \in {VisitUnit(list, docId, currNode, parent, st)}}})

\* a factory that outlives the call: its registry is the one the last call
\* of _buildHtmlNavigation left
SharedHtmlElementProxyFactory == htmlRegistry

\* new HtmlElementProxyFactory(): the registry of a new factory
HtmlElementProxyFactory == EmptyRegistry

\* _buildHtmlNavigation: the markup returned and the registry of the factory
\* at the end of the call
buildHtmlNavigation(docId) ==
    LET htmlFactory == HtmlElementProxyFactory
    IN  Only({[markup |-> IF walked.rootHtmlEl # Null
                          THEN prettify(RenderElement(walked.registry, walked.rootHtmlEl[1]))
                          ELSE EmptyString,
               registry |-> walked.registry] :
              walked \in {WalkTree(flat, docId, tree, 1, 0,
                                   [registry |-> htmlFactory, rootHtmlEl |-> Null])}})

(***************************************************************************)
(* The queries                                                             *)
(***************************************************************************)
\* a call that reads the index
Query(name, a, value, registry) ==
    /\ ~crashed
    /\ Returns(name, a, value)
    /\ htmlRegistry' = registry
    /\ UNCHANGED <<index, skippedEver>>

\* a query that renders nothing
Lookup(name, a, value, registry) ==
    /\ Query(name, a, value, registry)
    /\ UNCHANGED firstMarkup

getHtmlNavigationFor(filePath) ==
    \E built \in {buildHtmlNavigation(filePath)} :
        /\ Query("getHtmlNavigationFor", Some(filePath), Some(built.markup), built.registry)
        /\ firstMarkup' =
               IF ~isIndexSealed THEN firstMarkup
               ELSE IF firstMarkup[filePath] = Null
               THEN [firstMarkup EXCEPT ![filePath] =
                        Some([markup |-> built.markup, again |-> FALSE])]
               ELSE [firstMarkup EXCEPT ![filePath][1].again = TRUE]

\* the value getRootDirPathFor returns
RootDirPathOf(filePath) ==
    LET rootAbsPath == flat[1].filePath
        homeDirAbsPath == Dirname(filePath)
        rootPathPrefix == makeRelUrl(homeDirAbsPath, rootAbsPath, EmptyString, TRUE)
    IN  IF Len(flat) = 0 THEN EmptyString
        ELSE IF rootPathPrefix # EmptyString THEN rootPathPrefix \o <<Sep>>
        ELSE EmptyString

getRootDirPathFor(filePath) ==
    Lookup("getRootDirPathFor", Some(filePath), Some(RootDirPathOf(filePath)), EmptyRegistry)

\* (new Date(ms)).toLocaleString('en-EN', {weekday, year, month, day: long
\* forms, timeZone: 'UTC'}), for a time within the first day of the epoch
DateString(ms) == <<"Thursday, January 1, 1970">>

\* the value getTimeStampFor returns
TimeStampOf(filePath) ==
    LET fileInfo == FindUnit(flat, filePath)
    IN  IF Len(flat) # 0 /\ fileInfo # 0 THEN DateString(flat[fileInfo].fileMTime)
        ELSE EmptyString

getTimeStampFor(filePath) ==
    Lookup("getTimeStampFor", Some(filePath), Some(TimeStampOf(filePath)), EmptyRegistry)

\* getCompilationHeader without its test of the length of the registry:
\* _flatCompilationsList[0] is undefined in an empty registry
getCompilationHeaderUnchecked(separator) ==
    IF Len(flat) # 0
    THEN Lookup("getCompilationHeader", separator,
                Some(AsString(flat[1].fileHeader)
                     \o (IF OrEmpty(separator) # EmptyString THEN <<" ">> \o separator[1]
                         ELSE EmptyString)),
                EmptyRegistry)
    ELSE /\ ~crashed
         /\ Throws("getCompilationHeader", separator)
         /\ htmlRegistry' = EmptyRegistry
         /\ UNCHANGED <<index, skippedEver, firstMarkup>>

\* getCompilationHeader with += in place of +: the header of the root unit
\* takes the separator
getCompilationHeaderInPlace(separator) ==
    LET value == IF Len(flat) # 0
                 THEN AsString(flat[1].fileHeader)
                      \o (IF OrEmpty(separator) # EmptyString THEN <<" ">> \o separator[1]
                          ELSE EmptyString)
                 ELSE EmptyString
    IN  /\ ~crashed
        /\ Returns("getCompilationHeader", separator, Some(value))
        /\ htmlRegistry' = EmptyRegistry
        /\ flat' = IF Len(flat) # 0 THEN [flat EXCEPT ![1].fileHeader = Some(value)] ELSE flat
        /\ UNCHANGED <<mustHideNavNumbering, isIndexSealed, tree, rawGroups,
                       foldersToExclude, skippedEver, firstMarkup>>

\* the value getCompilationHeader returns
CompilationHeaderOf(separator) ==
    IF Len(flat) # 0
    THEN AsString(flat[1].fileHeader)
         \o (IF OrEmpty(separator) # EmptyString THEN <<" ">> \o separator[1]
             ELSE EmptyString)
    ELSE EmptyString

getCompilationHeader(separator) ==
    Lookup("getCompilationHeader", separator, Some(CompilationHeaderOf(separator)),
          EmptyRegistry)

\* the value getHeaderFor returns
HeaderOf(srcFilePath) ==
    LET doc == FindUnit(flat, srcFilePath)
    IN  IF Len(flat) # 0 /\ doc # 0 THEN flat[doc].fileHeader ELSE Some(EmptyString)

getHeaderFor(srcFilePath) ==
    Lookup("getHeaderFor", Some(srcFilePath), HeaderOf(srcFilePath), EmptyRegistry)

(***************************************************************************)
(* HtmlTemplateProcessor                                                   *)
(***************************************************************************)
ROOT_NAME_TAG ==
    <<"$", "$", "r", "o", "o", "t", "N", "a", "m", "e">>
DOC_NAME_TAG ==
    <<"$", "$", "d", "o", "c", "N", "a", "m", "e">>
ROOT_DIR_TAG ==
    <<"$", "$", "r", "o", "o", "t", "D", "i", "r", "$", "$">>
NAVIGATION_TAG ==
    <<"$", "$", "n", "a", "v", "i", "g", "a", "t", "i", "o", "n">>
DOCUMENT_TAG ==
    <<"$", "$", "d", "o", "c", "u", "m", "e", "n", "t">>
LAST_UPDATED_TAG ==
    <<"$", "$", "l", "a", "s", "t", "U", "p", "d", "a", "t", "e", "d">>

\* the text has the pattern at position i
MatchesAt(text, pattern, i) ==
    /\ i + Len(pattern) - 1 <= Len(text)
    /\ \A k \in DOMAIN pattern : text[i + k - 1] = pattern[k]

\* a replacement string of String.replace with its patterns expanded: "$$"
\* stands for "$", and "$&" for the matched text
RECURSIVE ExpandReplacement(_, _)
ExpandReplacement(replacement, matched) ==
    IF replacement = EmptyString THEN EmptyString
    ELSE IF MatchesAt(replacement, <<"$", "$">>, 1)
    THEN <<"$">> \o ExpandReplacement(DropFirst(replacement, 2), matched)
    ELSE IF MatchesAt(replacement, <<"$", "&">>, 1)
    THEN matched \o ExpandReplacement(DropFirst(replacement, 2), matched)
    ELSE <<replacement[1]>> \o ExpandReplacement(DropFirst(replacement, 1), matched)

\* the text from position i on, with every occurrence of the pattern, from
\* left to right, being the given text instead
RECURSIVE SubstituteFrom(_, _, _, _)
SubstituteFrom(text, pattern, with, i) ==
    IF i > Len(text) THEN EmptyString
    ELSE IF MatchesAt(text, pattern, i)
    THEN with \o SubstituteFrom(text, pattern, with, i + Len(pattern))
    ELSE <<text[i]>> \o SubstituteFrom(text, pattern, with, i + 1)

\* output.replace(new RegExp(_escapePattern(tag), 'g'), replacement)
ReplaceTag(output, tag, replacement) ==
    Only({SubstituteFrom(output, tag, with, 1) :
             with \in {ExpandReplacement(AsString(replacement), tag)}})

\* output.split(tagPattern).join(fileContent)
SplitJoin(output, tag, fileContent) == SubstituteFrom(output, tag, fileContent, 1)

\* the tags in the order process resolves them
TagsToResolve ==
    <<ROOT_NAME_TAG, DOC_NAME_TAG, LAST_UPDATED_TAG, NAVIGATION_TAG, DOCUMENT_TAG,
      ROOT_DIR_TAG, LAST_UPDATED_TAG>>

\* the body of the forEach of process for one tag
ResolveTag(output, tag, srcFilePath, fileContent, navigation) ==
    IF tag = ROOT_NAME_TAG THEN ReplaceTag(output, tag, Some(CompilationHeaderOf(Undefined)))
    ELSE IF tag = DOC_NAME_TAG THEN ReplaceTag(output, tag, HeaderOf(srcFilePath))
    ELSE IF tag = NAVIGATION_TAG THEN ReplaceTag(output, tag, Some(navigation))
    ELSE IF tag = LAST_UPDATED_TAG THEN ReplaceTag(output, tag, Some(TimeStampOf(srcFilePath)))
    ELSE IF tag = DOCUMENT_TAG THEN SplitJoin(output, tag, fileContent)
    ELSE IF tag = ROOT_DIR_TAG THEN ReplaceTag(output, tag, Some(RootDirPathOf(srcFilePath)))
    ELSE output

\* tagsToResolve.forEach, from the n-th tag on
RECURSIVE ResolveTags(_, _, _, _, _, _)
ResolveTags(output, tags, n, srcFilePath, fileContent, navigation) ==
    IF n > Len(tags) THEN output
    ELSE Only({ResolveTags(resolved, tags, n + 1, srcFilePath, fileContent, navigation) :
                  resolved \in {ResolveTag(output, tags[n], srcFilePath, fileContent,
                                           navigation)}})

\* HtmlTemplateProcessor.process over a list of tags; the navigation is rendered
\* by the call of getHtmlNavigationFor
processTags(tags, srcFilePath, fileContent, htmlTemplate) ==
    \E built \in {buildHtmlNavigation(srcFilePath)} :
        /\ Query("process",
                 Some([srcFilePath |-> srcFilePath, fileContent |-> fileContent,
                       htmlTemplate |-> htmlTemplate]),
                 Some(ResolveTags(htmlTemplate, tags, 1, srcFilePath, fileContent,
                                  built.markup)),
                 built.registry)
        /\ firstMarkup' =
               IF ~isIndexSealed THEN firstMarkup
               ELSE IF firstMarkup[srcFilePath] = Null
               THEN [firstMarkup EXCEPT ![srcFilePath] =
                        Some([markup |-> built.markup, again |-> FALSE])]
               ELSE [firstMarkup EXCEPT ![srcFilePath][1].again = TRUE]

process(srcFilePath, fileContent, htmlTemplate) ==
    processTags(TagsToResolve, srcFilePath, fileContent, htmlTemplate)

Separators == {Null, Some(<<"-">>)}

\* the walk of the source folder has room for one more entry
HasRoom(limit) == Len(flat) < limit

AddRoot(limit) == HasRoom(limit) /\ addRootToIndex(RootEntry)
AddDirectory(limit, entries) ==
    HasRoom(limit) /\ \E e \in entries : addDirectoryToIndex(e)
AddFile(limit, entries) == HasRoom(limit) /\ \E e \in entries : addFileToIndex(e)
BuildIndex == \E skippedFilePaths \in SkippedLists : buildIndex(skippedFilePaths)
GetHtmlNavigationFor == \E filePath \in DocIds : getHtmlNavigationFor(filePath)
GetRootDirPathFor == \E filePath \in DocIds : getRootDirPathFor(filePath)
GetTimeStampFor == \E filePath \in DocIds : getTimeStampFor(filePath)
GetCompilationHeader == \E separator \in Separators : getCompilationHeader(separator)
GetHeaderFor == \E srcFilePath \in DocIds : getHeaderFor(srcFilePath)

\* the engine while the index is built: the walk of the source folder and
\* the finalization
Next ==
    \/ AddRoot(MaxUnits)
    \/ AddDirectory(MaxUnits, DirEntries)
    \/ AddFile(MaxUnits, FileEntries)
    \/ BuildIndex

Spec == Init /\ [][Next]_vars

\* the engine with its queries, over smaller folders
NavDirEntries == {e \in DirEntries : e.path = DirPath}
NavFileEntries ==
    {e \in FileEntries :
        e.path \in {<<NameRoot, NameA>>, <<NameRoot, NameB>>, <<NameRoot, NameDir, NameX>>}}

NextNav ==
    \/ AddRoot(MaxNavUnits)
    \/ AddDirectory(MaxNavUnits, NavDirEntries)
    \/ AddFile(MaxNavUnits, NavFileEntries)
    \/ BuildIndex
    \/ GetHtmlNavigationFor
    \/ GetRootDirPathFor
    \/ GetTimeStampFor
    \/ GetCompilationHeader
    \/ GetHeaderFor

SpecNav == Init /\ [][NextNav]_vars

(***************************************************************************)
(* The functions of the engine that depend on their arguments only, each   *)
(* applied once to arguments drawn from a bounded set.  The engine itself  *)
(* stays as it was constructed.                                            *)
(***************************************************************************)
\* the engine is new and makes no call of its own
Idle ==
    /\ mustHideNavNumbering = FALSE
    /\ isIndexSealed = FALSE
    /\ flat = << >>
    /\ tree = << >>
    /\ rawGroups = << >>
    /\ foldersToExclude = << >>
    /\ crashed = FALSE
    /\ op = "new"
    /\ ret = Undefined
    /\ htmlRegistry = EmptyRegistry
    /\ skippedEver = {}
    /\ firstMarkup = NoneRendered

\* a function was applied to the arguments held in arg, and returned
Applied(name, value) ==
    /\ op = "new"
    /\ op' = name
    /\ ret' = Some(value)
    /\ UNCHANGED <<index, crashed, arg, htmlRegistry, skippedEver, firstMarkup>>

\* the numberings of at most MaxKeyLen segments: none (null), the empty
\* array, and the arrays of small non-negative integers
SegmentValues == {0, 1, 2}
Numberings ==
    {Null} \cup {Some(s) : s \in UNION {[1..n -> SegmentValues] : n \in 0..MaxKeyLen}}

\* a unit object with this numbering
NumberedUnit(numbering) == [numbering |-> numbering]

InitCompare == Idle /\ arg \in {Some(<<a, b>>) : a, b \in Numberings}

ApplyCompare ==
    Applied("_multiPartComparison",
            multiPartComparison(NumberedUnit(arg[1][1]), NumberedUnit(arg[1][2])))

NextCompare == ApplyCompare

SpecCompare == InitCompare /\ [][NextCompare]_vars

\* the texts of at most MaxTextLen characters, and no text at all
TextChars == {"0", "1", "2", ".", " ", "_", "a"}
Texts ==
    {Null} \cup {Some(s) : s \in UNION {[1..n -> TextChars] : n \in 0..MaxTextLen}}

InitExtract == Idle /\ arg \in Texts

ApplyExtract == Applied("_extractNumbering", ExtractNumbering(arg))

\* _extractNumbering on its own, and at work in the insertions
NextExtract ==
    \/ ApplyExtract
    \/ AddRoot(MaxUnits)
    \/ AddDirectory(MaxUnits, DirEntries)
    \/ AddFile(MaxUnits, FileEntries)
    \/ BuildIndex

SpecExtract == InitExtract /\ [][NextExtract]_vars

\* the absolute paths of at most MaxPathLen segments over a few names: a
\* plain name, a name with white space at its ends, and a name with an
\* extension
SegmentNames == {<<"d">>, <<" ", "e", " ">>, <<"a", ".", "t", "x", "t">>}
AbsolutePaths == UNION {[1..n -> SegmentNames] : n \in 0..MaxPathLen}

InitRelUrl ==
    /\ Idle
    /\ arg \in {Some([fromPath |-> f, toPath |-> t, fileType |-> x,
                      assumeFolders |-> b, sep |-> s]) :
                    f \in AbsolutePaths, t \in AbsolutePaths,
                    x \in {HtmlType, EmptyString}, b \in BOOLEAN, s \in HostSeparators}

ApplyRelUrl ==
    Applied("_makeRelUrl",
            makeRelUrlOn(arg[1].sep, arg[1].fromPath, arg[1].toPath, arg[1].fileType,
                         arg[1].assumeFolders))

NextRelUrl == ApplyRelUrl

SpecRelUrl == InitRelUrl /\ [][NextRelUrl]_vars

\* the labels of at most MaxWords words, separated by spaces, by dashes or by
\* underscores: small words, acronyms (built in and custom) and other words,
\* in lower, upper and mixed case
LabelWords ==
    {<<"a", "n", "d">>, <<"A", "N", "D">>, <<"f", "a", "q">>, <<"F", "A", "Q">>,
     <<"t", "i", "p", "s">>, <<"T", "i", "p", "s">>, <<"M", "T", "F">>,
     <<"(", "o", "k", ")">>, <<"2", "N", "D">>}
WordSeparators == {" ", "-", "_"}
Labels ==
    {Join(words, <<s>>) :
        words \in UNION {[1..n -> LabelWords] : n \in 0..MaxWords}, s \in WordSeparators}

InitTidyUp ==
    /\ Idle
    /\ arg \in {Some([label |-> l, removeNumbering |-> b]) : l \in Labels, b \in BOOLEAN}

ApplyTidyUp ==
    Applied("tidyUpLabel", tidyUpLabel(Some(arg[1].label), arg[1].removeNumbering))

NextTidyUp == ApplyTidyUp

SpecTidyUp == InitTidyUp /\ [][NextTidyUp]_vars

\* the engine over a source folder whose own name starts with a numbering,
\* next to the folder of the other specifications, and over documents whose
\* name and header both start with a numbering
NameBook == <<"3", " ", "r">>
NameE == <<"1", " ", "E", ".", "t", "x", "t">>

RootEntries == {RootEntry, Entry(<<NameBook>>, ROOT, Null, 0)}
TitleDirEntries == {Entry(DirPath, DIR, Null, 0), Entry(<<NameBook, NameDir>>, DIR, Null, 0)}
TitleFileEntries ==
    {e \in FileEntries : e.path \in {<<NameRoot, NameA>>, <<NameRoot, NameIntro>>,
                                     <<NameRoot, NameDir, NameX>>}}
    \cup {Entry(<<NameRoot, NameE>>, TXT, Some(<<"7", " ", "f", "a", "q">>), 0),
          Entry(<<NameBook, NameX>>, TXT, Some(<<" ">>), 0)}
TitleEntries == RootEntries \cup TitleDirEntries \cup TitleFileEntries

AddRootOf(limit, entries) == HasRoom(limit) /\ \E e \in entries : addRootToIndex(e)

NextTitles ==
    \/ AddRootOf(MaxUnits, RootEntries)
    \/ AddDirectory(MaxUnits, TitleDirEntries)
    \/ AddFile(MaxUnits, TitleFileEntries)

SpecTitles == Init /\ [][NextTitles]_vars

\* the engine with the template processor: every document of DocIds is
\* converted with a template and a body that hold the placeholders
FullTemplate ==
    <<"<title>">> \o ROOT_NAME_TAG \o <<" ">> \o DOC_NAME_TAG \o <<"</title>">>
    \o <<"<link href=">> \o ROOT_DIR_TAG \o <<"a.css>">>
    \o <<"<nav>">> \o NAVIGATION_TAG \o <<"</nav>">>
    \o <<"<main>">> \o DOCUMENT_TAG \o <<"</main>">>
    \o <<"<aside>">> \o LAST_UPDATED_TAG \o <<"</aside>">>
HtmlTemplates == {FullTemplate, DOCUMENT_TAG}

PlaceholderTags ==
    {ROOT_NAME_TAG, DOC_NAME_TAG, ROOT_DIR_TAG, NAVIGATION_TAG, DOCUMENT_TAG,
     LAST_UPDATED_TAG}
FileContents == {<<"<p>">> \o tag \o <<"</p>">> : tag \in PlaceholderTags \cup {<<"text">>}}

\* _processFile converts a document once, either alone (the engine is then
\* empty) or in the second walk of a batch run, after buildIndex, when the
\* first walk has reported it
Process ==
    \E srcFilePath \in DocIds, fileContent \in FileContents, htmlTemplate \in HtmlTemplates :
        /\ flat = << >> \/ (isIndexSealed /\ FindUnit(flat, srcFilePath) # 0)
        /\ firstMarkup[srcFilePath] = Null
        /\ process(srcFilePath, fileContent, htmlTemplate)

DocEntries == {e \in FileEntries : e.path \in DocIds}

NextProcess ==
    \/ AddRoot(MaxNavUnits)
    \/ AddDirectory(MaxNavUnits, NavDirEntries)
    \/ AddFile(MaxNavUnits, DocEntries)
    \/ BuildIndex
    \/ Process

SpecProcess == Init /\ [][NextProcess]_vars

\* getRootDirPathFor for documents at every depth of the source folder, which
\* is a folder of the file system or its root
FileSystemRoot == << >>
SourceFolders == {RootEntry, Entry(FileSystemRoot, ROOT, Null, 0)}
DocumentPaths ==
    {RootPath \o folders \o <<NameX>> :
        folders \in UNION {[1..n -> {NameDir, NameSub}] : n \in 0..MaxPathLen}}

GetRootDirPathOfAny == \E filePath \in DocumentPaths : getRootDirPathFor(filePath)

NextRootDir ==
    \/ AddRootOf(MaxUnits, SourceFolders)
    \/ GetRootDirPathOfAny

SpecRootDir == Init /\ [][NextRootDir]_vars

\* the engine while the index is built, buildIndex being given the skipped
\* files of the source folder or a file whose folders the root is none of
\* (the path of the root is compared as a string: a <source> given as "/r/"
\* is the parent of no path Path.dirname returns)
ImgElsewhere == <<<<"o">>, NameImg>>
SkippedAnywhere == SkippedLists \cup {Some(<<ImgElsewhere>>), Some(<<ImgInDir, ImgElsewhere>>)}

BuildIndexOf(lists) == \E skippedFilePaths \in lists : buildIndex(skippedFilePaths)

NextBuild ==
    \/ AddRoot(MaxUnits)
    \/ AddDirectory(MaxUnits, DirEntries)
    \/ AddFile(MaxUnits, FileEntries)
    \/ BuildIndexOf(SkippedAnywhere)

SpecBuild == Init /\ [][NextBuild]_vars

(***************************************************************************)
(* The batch run: the second walk of the source folder                     *)
(***************************************************************************)
\* the documents of the registry, in the order the walk reports them
FileUnits == SelectSeq([i \in DOMAIN flat |-> i],
                       LAMBDA i : flat[i].fileExtension \notin {DIR, ROOT})

\* _processFile for a document of a batch run: false, and nothing written,
\* when the content of the file starts with NO_COMPILE_TAG
processFile(srcFilePath, noCompile) == srcFilePath \notin noCompile

\* the callback of the second walk for the documents from the k-th on; "$"
\* holds the counters, and written the documents _processFile has saved
RECURSIVE VisitDocuments(_, _, _, _)
VisitDocuments(files, k, noCompile, run) ==
    IF k > Len(files) THEN run
    ELSE LET currSrcPath == flat[files[k]].filePath
             currOperationResult == processFile(currSrcPath, noCompile)
         IN  VisitDocuments(files, k + 1, noCompile,
                 [numSuccess |-> IF currOperationResult THEN run.numSuccess + 1
                                 ELSE run.numSuccess,
                  numSkipped |-> IF currOperationResult THEN run.numSkipped
                                 ELSE run.numSkipped - 1,
                  numTotal |-> run.numTotal + 1,
                  written |-> IF currOperationResult THEN Append(run.written, currSrcPath)
                              ELSE run.written])

\* case 3 of _process past buildIndex: every document is converted in turn,
\* the summary is made of the counters, and the run is a success when a
\* document was converted.  A document that is written holds the navigation
\* rendered for it.
processBatch(noCompile) ==
    \E run \in {VisitDocuments(FileUnits, 1, noCompile,
                               [numSuccess |-> 0, numSkipped |-> 0, numTotal |-> 0,
                                written |-> << >>])} :
    \E built \in {[k \in DOMAIN run.written |-> buildHtmlNavigation(run.written[k])]} :
        /\ Query("_process", Some(noCompile),
                 Some([numSuccess |-> run.numSuccess, numSkipped |-> run.numSkipped,
                       numTotal |-> run.numTotal, success |-> run.numSuccess > 0,
                       written |-> run.written,
                       navigation |-> [k \in DOMAIN built |-> built[k].markup]]),
                 IF built = << >> THEN htmlRegistry ELSE built[Len(built)].registry)
        /\ firstMarkup' =
               [d \in DocIds |->
                   IF \A k \in DOMAIN run.written : run.written[k] # d THEN firstMarkup[d]
                   ELSE IF firstMarkup[d] = Null
                   THEN Some([markup |-> buildHtmlNavigation(d).markup, again |-> FALSE])
                   ELSE Some([firstMarkup[d][1] EXCEPT !.again = TRUE])]

\* the documents of the registry whose content starts with NO_COMPILE_TAG are
\* any of them
ProcessBatch ==
    /\ isIndexSealed
    /\ flat # << >>
    /\ \E noCompile \in SUBSET {flat[FileUnits[k]].filePath : k \in DOMAIN FileUnits} :
           processBatch(noCompile)

NextBatch ==
    \/ AddRoot(MaxNavUnits)
    \/ AddDirectory(MaxNavUnits, NavDirEntries)
    \/ AddFile(MaxNavUnits, NavFileEntries)
    \/ BuildIndex
    \/ ProcessBatch

SpecBatch == Init /\ [][NextBatch]_vars

(***************************************************************************)
(* Properties                                                              *)
(***************************************************************************)
InsertionOps == {"addRootToIndex", "addDirectoryToIndex", "addFileToIndex"}
QueryOps == {"getHtmlNavigationFor", "getRootDirPathFor", "getTimeStampFor",
             "getCompilationHeader", "getHeaderFor"}

\* the position in the registry of the file of the root folder with this name
\* (0 when it was not inserted), and the children of the unit at a position
U(name) == FindUnit(flat, <<NameRoot, name>>)
Ch(i) == OrEmpty(flat[i].children)
RootUnit == FindUnit(flat, RootPath)
Paths == {flat[i].filePath : i \in DOMAIN flat}

\* C1: once buildIndex has been called, a call of addRootToIndex,
\* addDirectoryToIndex or addFileToIndex fails with an error and leaves the
\* flat registry (and with it every children list), the navigation tree and
\* the pending sibling groups as they were before the call.
C1_SealedInsertionFails ==
    [][(isIndexSealed /\ op' \in InsertionOps)
         => (crashed' /\ ret' = Undefined /\ flat' = flat /\ tree' = tree
             /\ rawGroups' = rawGroups)]_vars

\* an insertion into a sealed index of several units has failed
C1_Witness ==
    /\ isIndexSealed
    /\ crashed
    /\ op \in InsertionOps
    /\ Len(flat) >= 3

\* C2: a root folder with exactly the four files "1 A", "1.1 B", "1.1.1 C"
\* and "2 D", inserted in any order: after buildIndex root.children is
\* [A, D], A.children is [B], B.children is [C], and C and D have no
\* children.
C2_FourFilesChain ==
    (/\ isIndexSealed
     /\ ~crashed
     /\ Paths = {RootPath} \cup {<<NameRoot, n>> : n \in {NameA, NameB, NameC, NameD}})
    => /\ Ch(RootUnit) = <<U(NameA), U(NameD)>>
       /\ Ch(U(NameA)) = <<U(NameB)>>
       /\ Ch(U(NameB)) = <<U(NameC)>>
       /\ Ch(U(NameC)) = << >>
       /\ Ch(U(NameD)) = << >>

\* the four files were inserted with "2 D" first and "1 A" last, and the
\* index was built
C2_Witness ==
    /\ isIndexSealed
    /\ ~crashed
    /\ op = "buildIndex"
    /\ Paths = {RootPath} \cup {<<NameRoot, n>> : n \in {NameA, NameB, NameC, NameD}}
    /\ U(NameD) = 2
    /\ U(NameA) = 5

\* the units at positions a and b are files of one folder
FilesOfOneFolder(a, b) ==
    /\ flat[a].fileExtension \notin {DIR, ROOT}
    /\ flat[b].fileExtension \notin {DIR, ROOT}
    /\ Dirname(flat[a].filePath) = Dirname(flat[b].filePath)

IsChildOf(b, a) == \E k \in DOMAIN Ch(a) : Ch(a)[k] = b

\* C3: when a folder holds a file with numbering [1] and a file with
\* numbering [1, 1], then after buildIndex the second is a child of the
\* first, whatever else the folder holds and whatever the insertion order.
C3_OneOneUnderOne ==
    (isIndexSealed /\ ~crashed)
    => \A a, b \in DOMAIN flat :
          (/\ FilesOfOneFolder(a, b)
           /\ flat[a].numbering = Some(<<1>>)
           /\ flat[b].numbering = Some(<<1, 1>>))
          => IsChildOf(b, a)

\* C4: after buildIndex, in every children list, two units at positions
\* i < j that both have a numbering satisfy compare(unit_i, unit_j) <= 0,
\* also in a list that mixes numbered units with units without a numbering.
C4_NumberedInOrder ==
    (isIndexSealed /\ ~crashed)
    => \A u \in DOMAIN flat : \A i, j \in DOMAIN Ch(u) :
          (/\ i < j
           /\ flat[Ch(u)[i]].numbering # Null
           /\ flat[Ch(u)[j]].numbering # Null)
          => Compare(flat, Ch(u)[i], Ch(u)[j]) <= 0

\* C5: the order of siblings is stable: when a was inserted before b under
\* the same parent, compare(a, b) = 0, and both are children of one unit
\* after buildIndex, then a comes before b in that children list.  (A unit
\* inserted earlier has the smaller position in the registry.)
C5_StableOrder ==
    (isIndexSealed /\ ~crashed)
    => \A u \in DOMAIN flat : \A i, j \in DOMAIN Ch(u) :
          (/\ Ch(u)[i] < Ch(u)[j]
           /\ Dirname(flat[Ch(u)[i]].filePath) = Dirname(flat[Ch(u)[j]].filePath)
           /\ Compare(flat, Ch(u)[i], Ch(u)[j]) = 0)
          => i < j

\* the folder at path p is a proper ancestor of the path q
IsProperAncestor(p, q) == Len(p) < Len(q) /\ SubSeq(q, 1, Len(p)) = p

\* C6: after buildIndex(skippedPaths), a unit is marked excluded if and only
\* if its path is a proper ancestor of a skipped path and lies strictly
\* below the root; so the root is never excluded, and no file is.
C6_ExcludedIffAncestorOfSkipped ==
    (isIndexSealed /\ ~crashed)
    => /\ \A i \in DOMAIN flat :
            flat[i].mustExclude
            <=> /\ IsProperAncestor(RootPath, flat[i].filePath)
                /\ \E skippedPath \in skippedEver :
                      IsProperAncestor(flat[i].filePath, skippedPath)
       /\ \A i \in DOMAIN flat :
            flat[i].fileExtension # DIR => ~flat[i].mustExclude

\* a file in a folder inside a folder was skipped, both folders are in the
\* index and excluded, and a file next to the inner folder is not
C6_Witness ==
    /\ isIndexSealed
    /\ ~crashed
    /\ op = "buildIndex"
    /\ ImgInSub \in skippedEver
    /\ FindUnit(flat, DirPath) # 0
    /\ FindUnit(flat, SubPath) # 0
    /\ FindUnit(flat, <<NameRoot, NameDir, NameX>>) # 0
    /\ flat[FindUnit(flat, DirPath)].mustExclude
    /\ flat[FindUnit(flat, SubPath)].mustExclude

\* the units of the subtree of the unit at u, and the units that are excluded
\* or below an excluded unit
RECURSIVE Subtree(_)
Subtree(u) == {u} \cup UNION {Subtree(Ch(u)[k]) : k \in DOMAIN Ch(u)}
Hidden == UNION {Subtree(u) : u \in {i \in DOMAIN flat : flat[i].mustExclude}}

ContainsSeq(s, pattern) ==
    \E i \in 1..(Len(s) - Len(pattern) + 1) : SubSeq(s, i, i + Len(pattern) - 1) = pattern

\* the markup holds the link to the file at u, or the label of the folder at u
ShowsUnit(markup, docId, u) ==
    IF flat[u].fileExtension = DIR
    THEN ContainsSeq(markup, <<"<label class=item-content>">>
                             \o AsString(flat[u].fileHeader) \o <<"</label>">>)
    ELSE ContainsSeq(markup, <<"<a href=">>
                             \o makeRelUrl(docId, flat[u].filePath, HtmlType, FALSE)
                             \o <<">">>)

\* the ids of the elements the rendering of the element with this id goes through
RECURSIVE ElementsBelow(_, _)
ElementsBelow(registry, id) ==
    LET el == registry[ElementAt(registry, id)]
    IN  {id} \cup UNION {ElementsBelow(registry, el.children[k]) : k \in DOMAIN el.children}

\* the elements rendered by the last call of getHtmlNavigationFor
RenderedElements ==
    LET id == ElementId(flat[tree[1]].filePath, "#container")
    IN  IF tree # << >> /\ IsRegistered(htmlRegistry, id)
        THEN ElementsBelow(htmlRegistry, id) ELSE {}

\* the walk has built an element for the unit at u
Visited(u) ==
    \E k \in DOMAIN htmlRegistry :
        htmlRegistry[k].id[1] = flat[u].filePath /\ htmlRegistry[k].template # << >>

RenderReturned == op = "getHtmlNavigationFor" /\ ~crashed

\* C7, as stated: the navigation of a finalized index has no list item,
\* label or link for an excluded unit or for a unit below one, and the walk
\* does not descend below an excluded unit (it builds no element there).
C7_NoDescentBelowExcluded ==
    (RenderReturned /\ isIndexSealed)
    => \A u \in Hidden :
          /\ ~ShowsUnit(ret[1], arg[1], u)
          /\ ~Visited(u)

\* C7, amended: the navigation of a finalized index has no list item, label
\* or link for an excluded unit or for a unit below one: no element of such
\* a unit is among the rendered elements, and the markup shows none.
C7_HiddenNotRendered ==
    (RenderReturned /\ isIndexSealed)
    => \A u \in Hidden :
          /\ ~ShowsUnit(ret[1], arg[1], u)
          /\ \A id \in RenderedElements : id[1] # flat[u].filePath

\* a navigation was rendered that shows "1 A" while the folder next to it is
\* excluded and holds a document
C7_Witness ==
    /\ RenderReturned
    /\ isIndexSealed
    /\ U(NameA) # 0
    /\ ShowsUnit(ret[1], arg[1], U(NameA))
    /\ FindUnit(flat, DirPath) # 0
    /\ flat[FindUnit(flat, DirPath)].mustExclude
    /\ FindUnit(flat, <<NameRoot, NameDir, NameX>>) \in Hidden

\* no root was ever added to the index
NoRoot == \A i \in DOMAIN flat : flat[i].fileExtension # ROOT

\* C8: when no root was ever added to the index, getHtmlNavigationFor,
\* getRootDirPathFor, getHeaderFor, getTimeStampFor and getCompilationHeader
\* return the empty string, and none of them fails.
C8_EmptyWithoutRoot ==
    (op \in QueryOps /\ NoRoot) => (~crashed /\ ret = Some(EmptyString))

\* the header of the compilation was asked of an index without a root, with
\* a separator
C8_Witness ==
    /\ op = "getCompilationHeader"
    /\ arg # Null
    /\ NoRoot
    /\ ~crashed
    /\ ret = Some(EmptyString)

\* C9: for a finalized index, getHtmlNavigationFor(d) returns the same
\* markup for d whatever render calls, for d or for other documents, were
\* made before it: it returns what the first render for d returned.
C9_RenderHistoryIndependent ==
    (RenderReturned /\ isIndexSealed)
    => /\ firstMarkup[arg[1]] # Null
       /\ ret = Some(firstMarkup[arg[1]][1].markup)

\* a navigation with a link in it was rendered again for a document, after a
\* navigation was rendered for every other document
C9_Witness ==
    /\ RenderReturned
    /\ isIndexSealed
    /\ \A d \in DocIds : firstMarkup[d] # Null
    /\ firstMarkup[arg[1]][1].again
    /\ \E u \in DOMAIN flat : ShowsUnit(ret[1], arg[1], u)

\* C10: getHtmlNavigationFor, getRootDirPathFor, getTimeStampFor,
\* getHeaderFor and getCompilationHeader leave the index as it is: the
\* registry with every unit's children, title and flags, the navigation
\* tree, the pending groups and the sealed flag.
C10_QueriesLeaveIndex ==
    [][op' \in QueryOps => index' = index]_vars

\* a query returned on an index of several units, one of them with a child
\* under its left sibling
C10_Witness ==
    /\ op \in QueryOps
    /\ ~crashed
    /\ isIndexSealed
    /\ U(NameA) # 0
    /\ U(NameB) # 0
    /\ IsChildOf(U(NameB), U(NameA))

\* C11: getHtmlNavigationFor, called on an index that has a root and on which
\* buildIndex was not called yet, fails instead of returning markup.
C11_UnsealedRenderFails ==
    (op = "getHtmlNavigationFor" /\ ~isIndexSealed /\ ~NoRoot) => crashed

Sign(n) == IF n < 0 THEN -1 ELSE IF n > 0 THEN 1 ELSE 0

\* the numbering has at least one segment
IsKey(numbering) == numbering # Null /\ numbering[1] # << >>
Keys == {k \in Numberings : IsKey(k)}

\* a key with trailing zeros up to a length
Padded(key, n) == [i \in 1..n |-> IF i <= Len(key) THEN key[i] ELSE 0]

\* the order of two numberings as the claim C12 states it
StatedOrder(a, b) ==
    IF ~IsKey(a) \/ ~IsKey(b) THEN 0
    ELSE LET n == IF Len(a[1]) > Len(b[1]) THEN Len(a[1]) ELSE Len(b[1])
             pa == Padded(a[1], n)
             pb == Padded(b[1], n)
             differ == {i \in 1..n : pa[i] # pb[i]}
             first == CHOOSE i \in differ : \A j \in differ : i <= j
         IN  IF differ = {} THEN Sign(Len(a[1]) - Len(b[1]))
             ELSE Sign(pa[first] - pb[first])

CompareOf(a, b) == multiPartComparison(NumberedUnit(a), NumberedUnit(b))

\* C12: compare(a, b) is 0 when a or b is null or empty; otherwise its sign
\* is the sign of the first non-zero difference of the elements of a and b
\* padded with zeros to the longer length, and the sign of
\* length(a) - length(b) when no element differs.  On non-empty keys compare
\* is antisymmetric, transitive, and 0 only for identical keys.
C12_CompareOrdersKeys ==
    op = "_multiPartComparison"
    => LET a == arg[1][1]
           b == arg[1][2]
           order == ret[1]
       IN  /\ Sign(order) = StatedOrder(a, b)
           /\ (IsKey(a) /\ IsKey(b))
              => /\ Sign(CompareOf(b, a)) = 0 - Sign(order)
                 /\ order = 0 <=> a = b
                 /\ \A c \in Keys :
                       /\ (order < 0 /\ CompareOf(b, c) < 0) => CompareOf(a, c) < 0
                       /\ (order <= 0 /\ CompareOf(b, c) <= 0) => CompareOf(a, c) <= 0

\* [1, 0] was compared with [1, 0, 0] and found to come first
C12_Witness ==
    /\ op = "_multiPartComparison"
    /\ arg = Some(<<Some(<<1, 0>>), Some(<<1, 0, 0>>)>>)
    /\ ret[1] < 0

IsLetter(c) == c \in LowerSet \cup UpperSet

\* a character of a leading numbering run: a digit, an underscore, or a
\* character that is neither a letter nor a digit
IsRunChar(c) == IsDigit(c) \/ c = "_" \/ ~(IsLetter(c) \/ IsDigit(c))

\* the value of a string of decimal digits
DecimalValue(s) ==
    LET RECURSIVE Sum(_)
        Sum(k) == IF k = 0 THEN 0 ELSE 10 * Sum(k - 1) + DigitValue(s[k])
    IN  Sum(Len(s))

\* the numbering of a text as the claim C13 states it
StatedNumbering(text0) ==
    LET t == Trim(OrEmpty(text0))
        runLen == CHOOSE n \in 0..Len(t) :
                     /\ \A i \in 1..n : IsRunChar(t[i])
                     /\ n < Len(t) => ~IsRunChar(t[n + 1])
        starts == {i \in 1..runLen : IsDigit(t[i]) /\ (i = 1 \/ ~IsDigit(t[i - 1]))}
        EndOf(i) == CHOOSE j \in i..runLen :
                       /\ \A k \in i..j : IsDigit(t[k])
                       /\ j < runLen => ~IsDigit(t[j + 1])
        Start(k) == CHOOSE i \in starts : Cardinality({j \in starts : j < i}) = k - 1
    IN  IF starts = {} THEN Null
        ELSE Some([k \in 1..Cardinality(starts) |->
                      DecimalValue(SubSeq(t, Start(k), EndOf(Start(k))))])

\* C13: _extractNumbering(text) is null when the trimmed text has no leading
\* run of digits, underscores and characters that are neither letters nor
\* digits, or when that run holds no digit; otherwise it is the non-empty
\* sequence of the maximal groups of digits of that run, in order, each read
\* as a decimal integer whatever its leading zeros.  So every numbering
\* stored on a unit is non-empty and holds non-negative integers only.
C13_ExtractsDigitGroups ==
    /\ op = "_extractNumbering" => ret[1] = StatedNumbering(arg)
    /\ \A i \in DOMAIN flat :
          flat[i].numbering # Undefined
          => /\ Len(flat[i].numbering[1]) >= 1
             /\ \A k \in DOMAIN flat[i].numbering[1] : flat[i].numbering[1][k] \in Nat

\* "01.2" was read as [1, 2]
C13_Witness ==
    /\ op = "_extractNumbering"
    /\ arg = Some(<<"0", "1", ".", "2">>)
    /\ ret = Some(Some(<<1, 2>>))

\* a unit was stored with the numbering [1, 0, 5] of its name
C13_WitnessStored ==
    /\ FindUnit(flat, DirPath) # 0
    /\ flat[FindUnit(flat, DirPath)].numbering = Some(<<1, 0, 5>>)

\* the segments of a string between the occurrences of a character
RECURSIVE SplitOn(_, _)
SplitOn(s, c) ==
    LET at == {i \in DOMAIN s : s[i] = c}
        first == CHOOSE i \in at : \A j \in at : i <= j
    IN  IF at = {} THEN <<s>>
        ELSE <<SubSeq(s, 1, first - 1)>> \o SplitOn(SubSeq(s, first + 1, Len(s)), c)

\* a name with its extension (what follows its last '.', unless that is its
\* first character) replaced by ext
WithExtension(name, ext) ==
    LET dots == {i \in 2..Len(name) : name[i] = "."}
        last == CHOOSE i \in dots : \A j \in dots : j <= i
        stem == IF dots = {} THEN name ELSE SubSeq(name, 1, last - 1)
    IN  stem \o (IF ext = EmptyString THEN EmptyString ELSE <<".">> \o ext)

BaseName(path) == IF path = << >> THEN EmptyString ELSE path[Len(path)]
Directory(path) == SubSeq(path, 1, Len(path) - 1)

\* the '..' steps from the directory of fromPath up to the deepest directory
\* both paths are in, then the names down to the directory of toPath
StepsBetween(fromPath, toPath) ==
    LET fromDir == Directory(fromPath)
        toDir == Directory(toPath)
        shared == {k \in 0..Len(fromDir) :
                     k <= Len(toDir) /\ SubSeq(fromDir, 1, k) = SubSeq(toDir, 1, k)}
        deepest == CHOOSE k \in shared : \A j \in shared : j <= k
    IN  [i \in 1..(Len(fromDir) - deepest) |-> <<".", ".">>]
        \o SubSeq(toDir, deepest + 1, Len(toDir))

\* the relative URL as the claim C14 states it
StatedRelUrl(a) ==
    Join(StepsBetween(a.fromPath, a.toPath)
            \o (IF a.assumeFolders THEN << >>
                ELSE <<WithExtension(BaseName(a.toPath), a.fileType)>>),
         <<"/">>)

\* the parts of the relative URL: the steps joined by '/', and the file name,
\* each without the white space at its two ends
DirectoryPart(a) == Trim(Join(StepsBetween(a.fromPath, a.toPath), <<"/">>))
FilePart(a) == Trim(WithExtension(BaseName(a.toPath), a.fileType))

TrimmedRelUrl(a) ==
    Join((IF DirectoryPart(a) # EmptyString THEN <<DirectoryPart(a)>> ELSE << >>)
            \o (IF a.assumeFolders THEN << >> ELSE <<FilePart(a)>>),
         <<"/">>)

\* a URL that neither starts nor ends with a separator and has no empty
\* segment, no '.' segment and no backslash
IsCleanUrl(url) ==
    /\ \A i \in DOMAIN url : url[i] # "\\"
    /\ url # EmptyString
       => /\ url[1] # "/"
          /\ url[Len(url)] # "/"
          /\ \A k \in DOMAIN SplitOn(url, "/") :
                SplitOn(url, "/")[k] \notin {EmptyString, <<".">>}

SameDirectory(a) == Directory(a.fromPath) = Directory(a.toPath)

\* C14, as stated: _makeRelUrl(from, to, ext) is the '..' steps from the
\* directory of from up to the deepest common directory, then the directory
\* names down to the directory of to, then (unless assumeFolders) the base
\* name of to with its extension replaced by ext, joined by single '/'; it
\* never starts or ends with a separator, has no empty segment, no '.'
\* segment and no backslash, and is the bare file name when both paths are
\* in one directory.
C14_RelUrlAsStated ==
    op = "_makeRelUrl"
    => /\ ret[1] = StatedRelUrl(arg[1])
       /\ IsCleanUrl(ret[1])
       /\ (SameDirectory(arg[1]) /\ ~arg[1].assumeFolders)
          => ret[1] = WithExtension(BaseName(arg[1].toPath), arg[1].fileType)

\* C14, amended: the URL is made of a directory part (the '..' steps and the
\* directory names, joined by '/') and, unless assumeFolders, a file part
\* (the base name of to with its extension replaced by ext), each with the
\* white space at its two ends removed; the directory part is left out when
\* it is empty, and the parts are joined by one '/'.  The URL has no
\* backslash; when assumeFolders is set or the file part is not empty, it
\* neither starts nor ends with a separator and has no empty or '.' segment;
\* when both paths are in one directory it is the file part alone.
C14_RelUrlOfTrimmedParts ==
    op = "_makeRelUrl"
    => /\ ret[1] = TrimmedRelUrl(arg[1])
       /\ \A i \in DOMAIN ret[1] : ret[1][i] # "\\"
       /\ (arg[1].assumeFolders \/ FilePart(arg[1]) # EmptyString) => IsCleanUrl(ret[1])
       /\ (SameDirectory(arg[1]) /\ ~arg[1].assumeFolders) => ret[1] = FilePart(arg[1])

\* on a Windows host, the URL from /d/d/a.txt to "/ e /a.txt" is
\* "../../ e/a.html"
C14_Witness ==
    /\ op = "_makeRelUrl"
    /\ arg[1].sep = "\\"
    /\ arg[1].fromPath = <<<<"d">>, <<"d">>, <<"a", ".", "t", "x", "t">>>>
    /\ arg[1].toPath = <<<<" ", "e", " ">>, <<"a", ".", "t", "x", "t">>>>
    /\ arg[1].fileType = HtmlType
    /\ ~arg[1].assumeFolders
    /\ ret[1] = <<".", ".", "/", ".", ".", "/", " ", "e", "/",
                  "a", ".", "h", "t", "m", "l">>

RootUnits == {i \in DOMAIN flat : flat[i].fileExtension = ROOT}

\* C15: whenever the registry is not empty, after any insertion calls,
\* successful or failed, exactly one unit of kind ROOT exists, it is the
\* first entry of the registry and the only top-level entry of the
\* navigation tree, and it has no parent.
C15_OneRootFirst ==
    flat # << >>
    => /\ Cardinality(RootUnits) = 1
       /\ flat[1].fileExtension = ROOT
       /\ tree = <<1>>
       /\ flat[1].parent = Undefined

\* C16: every unit of the registry that is not the root has a parent that is
\* the path of a unit of the registry; a call of addDirectoryToIndex or
\* addFileToIndex for an entry whose folder was never registered fails and
\* leaves no parentless unit in the registry.
C16_ParentsResolve ==
    \A i \in DOMAIN flat :
        flat[i].fileExtension # ROOT
        => /\ flat[i].parent # Undefined
           /\ FindUnit(flat, flat[i].parent[1]) # 0

IsFolder(i) == flat[i].fileExtension \in {DIR, ROOT}

\* the units that have the unit at i in their children list, and the number
\* of times the unit at i is in the children list of the unit at p
ParentsOf(i) == {p \in DOMAIN flat : IsChildOf(i, p)}
TimesIn(i, p) == Cardinality({k \in DOMAIN Ch(p) : Ch(p)[k] = i})

\* C17: buildIndex moves no directory and moves nothing into a directory:
\* after buildIndex every DIRECTORY unit is a child of exactly the unit
\* registered for its physical parent folder, the children of every
\* DIRECTORY or ROOT unit were all inserted with that folder as their
\* physical parent, and a unit that is a child of another unit than its
\* physical parent is a file under a file.
C17_DirectoriesStay ==
    isIndexSealed
    => \A i \in DOMAIN flat :
          /\ flat[i].fileExtension = DIR
             => /\ ParentsOf(i) = {FindUnit(flat, Dirname(flat[i].filePath))}
                /\ \A p \in ParentsOf(i) : TimesIn(i, p) = 1
          /\ IsFolder(i)
             => \A k \in DOMAIN Ch(i) : Dirname(flat[Ch(i)[k]].filePath) = flat[i].filePath
          /\ \A p \in ParentsOf(i) :
                flat[p].filePath # Dirname(flat[i].filePath)
                => ~IsFolder(i) /\ ~IsFolder(p)

\* the index was built with a numbered folder sorted between "1 A" and
\* "1.1 B": the folder stayed under the root, and "1.1.1 C" went under "1.1 B"
C17_Witness ==
    /\ isIndexSealed
    /\ ~crashed
    /\ op = "buildIndex"
    /\ FindUnit(flat, DirPath) # 0
    /\ U(NameA) # 0 /\ U(NameB) # 0 /\ U(NameC) # 0
    /\ Ch(RootUnit) = <<U(NameA), FindUnit(flat, DirPath), U(NameB)>>
    /\ Ch(U(NameB)) = <<U(NameC)>>

\* the registries the promotion can end with when the pending groups are
\* taken from the queue in any order, each group being scanned as buildIndex
\* scans it and the groups made on the way being queued
RECURSIVE PromotedInAnyOrder(_, _)
PromotedInAnyOrder(list, groups) ==
    IF groups = << >> THEN {list}
    ELSE UNION {LET scanned == ScanGroup(list, RemoveAt(groups, k), groups[k], 0)
                IN  PromotedInAnyOrder(scanned.list, scanned.groups) :
                k \in DOMAIN groups}

\* C18: the tree buildIndex ends with does not depend on the order in which
\* the sibling groups are taken from the queue of the promotion: whatever
\* the order, groups made during the promotion included, every unit gets the
\* children list, in the same order, that the first-in-first-out order of
\* buildIndex gives it.
C18_QueueOrderIrrelevant ==
    [][(op' = "buildIndex" /\ ~crashed')
         => \A any \in PromotedInAnyOrder(SortGroups(flat, rawGroups, 1), rawGroups) :
               \A i \in DOMAIN flat :
                  /\ any[i].children = flat'[i].children
                  /\ any[i].isNode = flat'[i].isNode]_vars

\* the index was built from two pending groups, of the root and of a folder,
\* and the promotion made a third one: "1.1.1 C" went under "1.1 B"
C18_Witness ==
    /\ isIndexSealed
    /\ ~crashed
    /\ op = "buildIndex"
    /\ FindUnit(flat, DirPath) # 0
    /\ Ch(FindUnit(flat, DirPath)) # << >>
    /\ U(NameB) # 0 /\ U(NameC) # 0
    /\ Ch(RootUnit) = <<FindUnit(flat, DirPath), U(NameB)>>
    /\ Ch(U(NameB)) = <<U(NameC)>>

\* the label of a call of tidyUpLabel once its numbering is removed (if asked
\* for) and its separators are normalised
Normalised(a) ==
    LET trimmed == Trim(a.label)
    IN  EnforceWhiteSpace(IF a.removeNumbering
                          THEN Trim(DropFirst(trimmed, Len(NumberingMatch(trimmed))))
                          ELSE trimmed)

HasNoLower(s) == \A i \in DOMAIN s : s[i] \notin LowerSet
HasNoUpper(s) == \A i \in DOMAIN s : s[i] \notin UpperSet

\* a token with the first character of its leading alphanumeric run in upper
\* case and every other letter in lower case
Capitalised(token) ==
    LET word == {i \in DOMAIN token : IsWordChar(token[i])}
        first == CHOOSE i \in word : \A j \in word : i <= j
    IN  IF word = {} THEN token
        ELSE [i \in DOMAIN token |->
                 IF i = first THEN ToUpperChar(token[i]) ELSE ToLowerChar(token[i])]

\* the i-th of the tokens of a label in lower case, as the claim C19 cases it
StatedToken(tokens, i) ==
    IF tokens[i] \in KNOWN_LOWER_CASE /\ i \notin {1, Len(tokens)} THEN tokens[i]
    ELSE IF \E acronym \in BUILTIN_UPPER_CASE \cup CustomAcronyms :
                ToLowerCase(acronym) = tokens[i]
    THEN ToUpperCase(tokens[i])
    ELSE Capitalised(tokens[i])

\* a string with its dashes read as the "en dash" they become
Dashed(s) == ReplaceRuns(s, "[\\-]", <<EnDash>>)

\* C19: tidyUpLabel changes letter case only when the label with its
\* separators normalised is entirely upper-case or entirely lower-case.  Then
\* each token between spaces that is a small word and neither the first nor
\* the last token stays lower-case, each other token that is a built-in or a
\* custom acronym (whatever the case it is given in) becomes upper-case, and
\* every other token gets its first letter in upper case and the rest in
\* lower case.  A label of mixed case keeps its case.
C19_CaseOnlyWhenUniform ==
    (op = "tidyUpLabel" /\ Trim(arg[1].label) # EmptyString)
    => LET label == Normalised(arg[1])
           tokens == SplitOn(ToLowerCase(label), " ")
           result == SplitOn(ret[1][1], " ")
       IN  IF HasNoLower(label) \/ HasNoUpper(label)
           THEN /\ Len(result) = Len(tokens)
                /\ \A i \in DOMAIN tokens : result[i] = Dashed(StatedToken(tokens, i))
           ELSE ret[1][1] = Dashed(label)

\* the upper-case label "FAQ_AND_2ND" became "FAQ and 2nd"
C19_Witness ==
    /\ op = "tidyUpLabel"
    /\ arg[1].label = <<"F", "A", "Q", "_", "A", "N", "D", "_", "2", "N", "D">>
    /\ ~arg[1].removeNumbering
    /\ ret[1][1] = <<"F", "A", "Q", " ", "a", "n", "d", " ", "2", "n", "d">>

\* the mixed-case label "FAQ and Tips" kept its case
C19_WitnessMixed ==
    /\ op = "tidyUpLabel"
    /\ arg[1].label = <<"F", "A", "Q", " ", "a", "n", "d", " ", "T", "i", "p", "s">>
    /\ ret[1][1] = arg[1].label

\* the numbering key the claim C20 gives the unit of an entry: the one of its
\* name, and for a document without one, the one of its header
StatedKey(e) ==
    LET fromName == ExtractNumbering(Some(Name(e.path)))
    IN  IF fromName = Null /\ e.kind \notin {ROOT, DIR}
        THEN ExtractNumbering(e.header)
        ELSE fromName

\* the label of the unit of an entry before it is formatted: the header of a
\* document that has one, and the name (of a document, without its extension)
StatedLabel(e) ==
    IF e.kind \in {ROOT, DIR} THEN Some(Name(e.path))
    ELSE IF OrEmpty(e.header) # EmptyString THEN e.header
    ELSE Some(changeFileExtension(Name(e.path), EmptyString))

\* the key of a unit written with dots and followed by ". "
Dotted(key) ==
    Join([i \in DOMAIN key |-> NumToString(key[i])], <<".">>) \o <<".", " ">>

\* the unit has the key and the title the claim C20 gives the unit of the entry
TitledAsStated(unit, e) ==
    /\ unit.numbering = StatedKey(e)
    /\ unit.fileHeader =
           Some((IF StatedKey(e) # Null /\ ~mustHideNavNumbering
                 THEN Dotted(StatedKey(e)[1]) ELSE EmptyString)
                \o AsString(tidyUpLabel(StatedLabel(e), TRUE)))

Insertions == {"addRootToIndex", "addDirectoryToIndex", "addFileToIndex"}

\* C20: every insertion operation that returns leaves a unit whose numbering
\* key is the one of its name (for a document whose name has none, the one of
\* its header), and whose title is the dotted key followed by ". ", if the unit
\* has a key and the numbering is not hidden, followed by the formatted label
\* without its own leading numbering.
C20_KeyAndTitle ==
    [][(op' \in Insertions /\ ~crashed')
       => \A e \in TitleEntries :
              e.path = arg'[1] => TitledAsStated(flat'[Len(flat')], e)]_vars

\* the text from position i on, with every placeholder of the pairs <<tag,
\* value>> that occurs in it resolved to its value, in one pass
RECURSIVE ResolvedFrom(_, _, _)
ResolvedFrom(text, pairs, i) ==
    IF i > Len(text) THEN EmptyString
    ELSE IF \E p \in DOMAIN pairs : MatchesAt(text, pairs[p][1], i)
    THEN LET p == CHOOSE q \in DOMAIN pairs : MatchesAt(text, pairs[q][1], i)
         IN  pairs[p][2] \o ResolvedFrom(text, pairs, i + Len(pairs[p][1]))
    ELSE <<text[i]>> \o ResolvedFrom(text, pairs, i + 1)

\* the output the claim C21 gives a call of process: the template with its
\* placeholders resolved, the body standing for $$document with nothing but
\* its $$rootDir$$ resolved
StatedOutput(a) ==
    Only({ResolvedFrom(a.htmlTemplate,
                       <<rootDir,
                         <<ROOT_NAME_TAG, CompilationHeaderOf(Undefined)>>,
                         <<DOC_NAME_TAG, AsString(HeaderOf(a.srcFilePath))>>,
                         <<NAVIGATION_TAG, navigation.markup>>,
                         <<LAST_UPDATED_TAG, TimeStampOf(a.srcFilePath)>>,
                         <<DOCUMENT_TAG, ResolvedFrom(a.fileContent, <<rootDir>>, 1)>> >>,
                       1) :
             rootDir \in {<<ROOT_DIR_TAG, RootDirPathOf(a.srcFilePath)>>},
             navigation \in {buildHtmlNavigation(a.srcFilePath)}})

\* C21: process resolves every placeholder of the template, and of the
\* placeholders of the document body only $$rootDir$$: $$rootName, $$docName,
\* $$navigation, $$lastUpdated and $$document of the body are in the output
\* as they were.
C21_BodyKeepsPlaceholders ==
    op = "process" => ret = Some(StatedOutput(arg[1]))

\* k repetitions of "../"
Ups(k) == Join([i \in 1..k |-> <<".", ".", "/">>], EmptyString)

\* the number of directory levels between the root of the compilation and
\* the directory of a document below it
LevelsBelowRoot(filePath) == Len(Dirname(filePath)) - Len(flat[1].filePath)

\* C22: for a document k directory levels below the root of the compilation,
\* getRootDirPathFor returns '' when k = 0 and k repetitions of "../"
\* otherwise, the path that leads from the directory of the document to the
\* root.
C22_RootDirIsKUps ==
    (op = "getRootDirPathFor" /\ flat # << >>
        /\ SubSeq(arg[1], 1, Len(flat[1].filePath)) = flat[1].filePath)
    => ret = Some(Ups(LevelsBelowRoot(arg[1])))

\* C23: after buildIndex the parent id of every unit that is not the root
\* names the unit that has it in its children list: a file the promotion
\* moved under its left sibling has the path of that sibling as its parent.
C23_ParentIdIsOwner ==
    (isIndexSealed /\ ~crashed)
    => \A i \in DOMAIN flat : \A p \in ParentsOf(i) : flat[i].parent = Some(flat[p].filePath)

\* the unit at i has a children list with a unit in it
HasChildren(i) == flat[i].children # Undefined /\ flat[i].children[1] # << >>

\* C24 as stated: in every reachable state, a unit is flagged as a container
\* (isNode) if and only if it has a children list that is not empty.
C24_FlagIffChildren ==
    \A i \in DOMAIN flat : flat[i].isNode <=> HasChildren(i)

\* C24: in every reachable state, a unit that is not the root is flagged as a
\* container (isNode) if and only if it has a children list that is not
\* empty, and the root is flagged from its insertion on; no children list is
\* ever left empty.
C24_FlagIffChildrenBelowRoot ==
    \A i \in DOMAIN flat :
        /\ flat[i].fileExtension # ROOT => (flat[i].isNode <=> HasChildren(i))
        /\ flat[i].fileExtension = ROOT => flat[i].isNode
        /\ flat[i].children # Undefined => flat[i].children[1] # << >>

\* the promotion has made a container of the file "1 A", which took "1.1 B"
\* from the children of the root, and the root kept "1 A"
C24_Witness ==
    /\ isIndexSealed
    /\ ~crashed
    /\ U(NameA) # 0 /\ U(NameB) # 0
    /\ flat[U(NameA)].isNode
    /\ Ch(U(NameA)) = <<U(NameB)>>
    /\ Ch(RootUnit) = <<U(NameA)>>

\* the list item of the unit at c in the navigation of a document: a link to
\* the unit for a file, and a plain label for a directory
StatedItem(docId, c) ==
    LET content == IF flat[c].fileExtension = DIR THEN AsString(flat[c].fileHeader)
                   ELSE vsprintf(LINK_TEMPLATE,
                                 <<makeRelUrl(docId, flat[c].filePath, HtmlType, FALSE),
                                   AsString(flat[c].fileHeader)>>)
    IN  vsprintf(NAV_ITEM_TEMPLATE, <<vsprintf(NAV_ITEM_CONTENT_TEMPLATE, <<content>>)>>)

\* the items of the units of a children list from position k on, in the order
\* of the list: nothing for an excluded unit and the units below it, and after
\* the item of a unit with children, one group with the items of the children
RECURSIVE StatedItems(_, _, _)
StatedItems(docId, children, k) ==
    IF k > Len(children) THEN EmptyString
    ELSE LET c == children[k]
             own == IF flat[c].mustExclude THEN EmptyString
                    ELSE IF Ch(c) = << >> THEN StatedItem(docId, c)
                    ELSE StatedItem(docId, c)
                         \o vsprintf(NAV_GROUP_TEMPLATE, <<StatedItems(docId, Ch(c), 1)>>)
         IN  Only({items \o StatedItems(docId, children, k + 1) : items \in {own}})

StatedNavigation(docId) ==
    vsprintf(NAV_ROOT_TEMPLATE,
             <<vsprintf(NAV_GROUP_TEMPLATE, <<StatedItems(docId, Ch(RootUnit), 1)>>)>>)

\* C25: the navigation rendered from a sealed index with a root has one list
\* item for every unit below the root that is neither excluded nor below an
\* excluded unit, in the pre-order of the tree: the children of a unit are, in
\* the order of its children list, in one group right after the item of the
\* unit.  The item of a file has a link to the file, the item of a directory
\* a plain label, and a directory without children has no group.
C25_NavigationIsPreOrder ==
    (op = "getHtmlNavigationFor" /\ isIndexSealed /\ RootUnit # 0)
    => ret = Some(StatedNavigation(arg[1]))

\* the navigation was rendered for a tree with a file made a container by the
\* promotion: the item of "1 A", then a group with the item of "1.1 B"
C25_Witness ==
    /\ op = "getHtmlNavigationFor"
    /\ isIndexSealed
    /\ RootUnit # 0 /\ U(NameA) # 0 /\ U(NameB) # 0
    /\ Ch(RootUnit) = <<U(NameA)>>
    /\ Ch(U(NameA)) = <<U(NameB)>>
    /\ ret # Some(EmptyString)

\* the navigation was rendered for a tree with an excluded directory that has
\* a document in it
C25_WitnessExcluded ==
    /\ op = "getHtmlNavigationFor"
    /\ isIndexSealed
    /\ RootUnit # 0 /\ FindUnit(flat, DirPath) # 0
    /\ flat[FindUnit(flat, DirPath)].mustExclude
    /\ Ch(FindUnit(flat, DirPath)) # << >>

\* the units of a registry that have the unit at i in their children list,
\* and the number of times they have it
OwnersIn(list, i) ==
    {p \in DOMAIN list : \E k \in DOMAIN OrEmpty(list[p].children) :
                            list[p].children[1][k] = i}
TimesOwned(list, i) ==
    Cardinality({at \in (DOMAIN list) \X (DOMAIN list) :
                    /\ at[2] \in DOMAIN OrEmpty(list[at[1]].children)
                    /\ list[at[1]].children[1][at[2]] = i})

\* the units that are in a set of units or below one of them
RECURSIVE Below(_, _)
Below(list, units) ==
    LET more == units \cup {i \in DOMAIN list : OwnersIn(list, i) \cap units # {}}
    IN  IF more = units THEN units ELSE Below(list, more)

\* a registry is a tree: the roots are in no children list, every other unit
\* is in one children list, once, and every unit is the root or below it
IsTree(list) ==
    LET roots == {i \in DOMAIN list : list[i].fileExtension = ROOT}
    IN  /\ \A i \in roots : OwnersIn(list, i) = {}
        /\ \A i \in DOMAIN list \ roots : TimesOwned(list, i) = 1
        /\ Below(list, roots) = DOMAIN list

\* C26: buildIndex keeps the units and the shape of the tree: after it, every
\* unit inserted is in the registry, every unit but the root is in one
\* children list and once in it, no unit is below itself and every unit is
\* reachable from the root; the promotion loses no unit and duplicates none.
C26_BuildKeepsTree ==
    [][(op' = "buildIndex" /\ ~crashed')
       => /\ [i \in DOMAIN flat' |-> flat'[i].filePath] = [i \in DOMAIN flat |-> flat[i].filePath]
          /\ IsTree(flat')]_vars

\* the index was built from a root with the files "1 A", "1.1 B", "1.1.1 C"
\* and "2 D": two units were moved, and "2 D" stayed under the root
C26_Witness ==
    /\ op = "buildIndex"
    /\ ~crashed
    /\ U(NameA) # 0 /\ U(NameB) # 0 /\ U(NameC) # 0 /\ U(NameD) # 0
    /\ Ch(RootUnit) = <<U(NameA), U(NameD)>>
    /\ Ch(U(NameA)) = <<U(NameB)>>
    /\ Ch(U(NameB)) = <<U(NameC)>>

\* two units the promotion rule applies to: neither is a directory, both have
\* a numbering key, and the key of the second is longer than the key of the
\* first
RuleApplies(prev, next) ==
    /\ flat[prev].fileExtension # DIR /\ flat[next].fileExtension # DIR
    /\ flat[prev].numbering # Undefined /\ flat[next].numbering # Undefined
    /\ Len(flat[next].numbering[1]) > Len(flat[prev].numbering[1])

\* C27: after buildIndex no children list of the tree, the lists the
\* promotion made included, has two adjacent units the promotion rule applies
\* to; and every file that is the child of a file has a key longer than the
\* key of that file.
C27_PromotionFixpoint ==
    (isIndexSealed /\ ~crashed)
    => \A p \in DOMAIN flat :
          /\ \A k \in DOMAIN Ch(p) : k > 1 => ~RuleApplies(Ch(p)[k - 1], Ch(p)[k])
          /\ ~IsFolder(p)
             => \A k \in DOMAIN Ch(p) :
                   /\ flat[Ch(p)[k]].numbering # Undefined
                   /\ flat[p].numbering # Undefined
                   /\ Len(flat[Ch(p)[k]].numbering[1]) > Len(flat[p].numbering[1])

\* the index was built from "1 A", "1.1 B" and "1.1.1 C": the list the
\* promotion made for "1 A" was scanned in turn, and "1.1.1 C" went on under
\* "1.1 B"
C27_Witness ==
    /\ isIndexSealed
    /\ ~crashed
    /\ U(NameA) # 0 /\ U(NameB) # 0 /\ U(NameC) # 0 /\ U(NameD) = 0
    /\ Ch(RootUnit) = <<U(NameA)>>
    /\ Ch(U(NameA)) = <<U(NameB)>>
    /\ Ch(U(NameB)) = <<U(NameC)>>

\* C28: buildIndex returns for every index built by insertions that returned
\* and every list of skipped files: the walk up from each skipped file ends,
\* the scan of each group ends, and the queue of groups runs empty.
C28_BuildIndexReturns ==
    [][(op' = "buildIndex" /\ ~crashed /\ flat # << >>)
       => (~crashed' /\ rawGroups' = << >>)]_vars

\* the markup has a link to the document of the unit at f, as the navigation
\* of the document docId writes it
HasLinkTo(markup, docId, f) ==
    LET link == vsprintf(LINK_TEMPLATE,
                         <<makeRelUrl(docId, flat[f].filePath, HtmlType, FALSE),
                           AsString(flat[f].fileHeader)>>)
    IN  \E i \in DOMAIN markup : MatchesAt(markup, link, i)

\* C29: in a batch run, every file with a link in the navigation of a written
\* document is a file _processFile has written a document for: a file whose
\* content starts with $$nocompile has no link in any navigation.
C29_LinksLeadToDocuments ==
    op = "_process"
    => \A k \in DOMAIN ret[1].written : \A j \in DOMAIN FileUnits :
          HasLinkTo(ret[1].navigation[k], ret[1].written[k], FileUnits[j])
          => \E w \in DOMAIN ret[1].written :
                ret[1].written[w] = flat[FileUnits[j]].filePath

\* C30: after a batch run the counters of the summary are non-negative,
\* numSuccess + numSkipped = numTotal, numSuccess is the number of files
\* _processFile returned true for and numSkipped the number of the others,
\* and the run is a success exactly when numSuccess > 0.
C30_CountersAddUp ==
    op = "_process"
    => /\ ret[1].numSuccess >= 0 /\ ret[1].numSkipped >= 0 /\ ret[1].numTotal >= 0
       /\ ret[1].numSuccess + ret[1].numSkipped = ret[1].numTotal
       /\ ret[1].numSuccess = Len(ret[1].written)
       /\ ret[1].numSkipped = Cardinality(arg[1])
       /\ ret[1].success <=> ret[1].numSuccess > 0

====
